---- MODULE Spec2Model ----
(***************************************************************************)
(* The ApexView quotes backend (hardened variant): the in-memory TTL cache *)
(* shared by the /quotes, /fx and /search handlers, the symbol normalizer *)
(* and the per-request fan-out of provider calls.                          *)
(*                                                                         *)
(* JavaScript strings are sequences of one-character strings, so that      *)
(* trim, toUpperCase, split, the regular expressions and the construction  *)
(* of cache keys are computed and not assumed.  A JSON scalar is a tagged  *)
(* record (Num, Null, Undefined, NotNum).  Date.now() is the variable      *)
(* clock, in milliseconds since the process started.                       *)
(***************************************************************************)
EXTENDS Integers, Sequences, FiniteSets, TLC

\* ------------------------------------------------------------------ bounds
\* Number of client requests in one behaviour.
MaxReqs == 2
\* Number of requests naming several valid symbols in one behaviour of the
\* batch specification.
MaxBatches == 1

\* --------------------------------------------------------------- constants
\* const CACHE_TTL_MS = 60 * 60 * 1000
CACHE_TTL_MS == 60 * 60 * 1000
\* const MAX_SYMBOLS = 100
MAX_SYMBOLS == 100

\* ----------------------------------------------------------------- strings
UpperChars ==
  <<"A","B","C","D","E","F","G","H","I","J","K","L","M",
    "N","O","P","Q","R","S","T","U","V","W","X","Y","Z">>
LowerChars ==
  <<"a","b","c","d","e","f","g","h","i","j","k","l","m",
    "n","o","p","q","r","s","t","u","v","w","x","y","z">>
DigitChars == <<"0","1","2","3","4","5","6","7","8","9">>
WhiteSpace == {" ", "\t", "\n"}

Range(f) == {f[i] : i \in DOMAIN f}

\* String.prototype.toUpperCase, one character
toUpperCaseChar(c) ==
  IF c \in Range(LowerChars)
    THEN UpperChars[CHOOSE i \in DOMAIN LowerChars : LowerChars[i] = c]
    ELSE c

\* String.prototype.toUpperCase
toUpperCase(s) == [i \in DOMAIN s |-> toUpperCaseChar(s[i])]

\* String.prototype.trim
RECURSIVE trimStart(_)
trimStart(s) ==
  IF s # <<>> /\ Head(s) \in WhiteSpace THEN trimStart(Tail(s)) ELSE s
RECURSIVE trimEnd(_)
trimEnd(s) ==
  IF s # <<>> /\ s[Len(s)] \in WhiteSpace
    THEN trimEnd(SubSeq(s, 1, Len(s) - 1)) ELSE s

\* Mutant: only the leading white space is removed.
trim_startOnly(s) == trimStart(s)

trim(s) == trimEnd(trimStart(s))

\* String.prototype.split(sep) for a one-character separator: the pieces
\* between the separators.  The pieces of s1 \o s2 are those of s1 and of s2
\* with the last piece of s1 and the first of s2 glued, which keeps the depth
\* of the recursion logarithmic in the length.
RECURSIVE split(_, _)
split(s, sep) ==
  IF s = <<>> THEN << <<>> >>
  ELSE IF Len(s) = 1 THEN (IF s[1] = sep THEN << <<>>, <<>> >> ELSE <<s>>)
  ELSE LET h == Len(s) \div 2
           l == split(SubSeq(s, 1, h), sep)
           r == split(SubSeq(s, h + 1, Len(s)), sep)
       IN SubSeq(l, 1, Len(l) - 1) \o <<l[Len(l)] \o r[1]>> \o Tail(r)

\* Array.from(new Set(arr)): first occurrences, in order
dedupe(arr) ==
  LET firsts == SelectSeq([i \in DOMAIN arr |-> i],
                          LAMBDA i : \A j \in 1..(i - 1) : arr[j] # arr[i])
  IN [k \in DOMAIN firsts |-> arr[firsts[k]]]

\* String.prototype.endsWith
endsWith(s, suffix) ==
  /\ Len(s) >= Len(suffix)
  /\ SubSeq(s, Len(s) - Len(suffix) + 1, Len(s)) = suffix

\* ------------------------------------------------------- symbol normalizer
\* The cryptoMap object literal of mapToFinnhubSymbol.
cryptoMap ==
       <<"B","T","C">> :> <<"B","I","N","A","N","C","E",":","B","T","C","U","S","D","T">> @@
       <<"B","T","C","-","U","S","D">> :> <<"B","I","N","A","N","C","E",":","B","T","C","U","S","D","T">> @@
       <<"E","T","H">> :> <<"B","I","N","A","N","C","E",":","E","T","H","U","S","D","T">> @@
       <<"E","T","H","-","U","S","D">> :> <<"B","I","N","A","N","C","E",":","E","T","H","U","S","D","T">> @@
       <<"B","N","B">> :> <<"B","I","N","A","N","C","E",":","B","N","B","U","S","D","T">> @@
       <<"B","N","B","-","U","S","D">> :> <<"B","I","N","A","N","C","E",":","B","N","B","U","S","D","T">> @@
       <<"S","O","L">> :> <<"B","I","N","A","N","C","E",":","S","O","L","U","S","D","T">> @@
       <<"S","O","L","-","U","S","D">> :> <<"B","I","N","A","N","C","E",":","S","O","L","U","S","D","T">> @@
       <<"X","R","P">> :> <<"B","I","N","A","N","C","E",":","X","R","P","U","S","D","T">> @@
       <<"X","R","P","-","U","S","D">> :> <<"B","I","N","A","N","C","E",":","X","R","P","U","S","D","T">> @@
       <<"A","D","A">> :> <<"B","I","N","A","N","C","E",":","A","D","A","U","S","D","T">> @@
       <<"A","D","A","-","U","S","D">> :> <<"B","I","N","A","N","C","E",":","A","D","A","U","S","D","T">> @@
       <<"A","V","A","X">> :> <<"B","I","N","A","N","C","E",":","A","V","A","X","U","S","D","T">> @@
       <<"A","V","A","X","-","U","S","D">> :> <<"B","I","N","A","N","C","E",":","A","V","A","X","U","S","D","T">> @@
       <<"D","O","G","E">> :> <<"B","I","N","A","N","C","E",":","D","O","G","E","U","S","D","T">> @@
       <<"D","O","G","E","-","U","S","D">> :> <<"B","I","N","A","N","C","E",":","D","O","G","E","U","S","D","T">> @@
       <<"M","A","T","I","C">> :> <<"B","I","N","A","N","C","E",":","M","A","T","I","C","U","S","D","T">> @@
       <<"M","A","T","I","C","-","U","S","D">> :> <<"B","I","N","A","N","C","E",":","M","A","T","I","C","U","S","D","T">> @@
       <<"D","O","T">> :> <<"B","I","N","A","N","C","E",":","D","O","T","U","S","D","T">> @@
       <<"D","O","T","-","U","S","D">> :> <<"B","I","N","A","N","C","E",":","D","O","T","U","S","D","T">> @@
       <<"L","T","C">> :> <<"B","I","N","A","N","C","E",":","L","T","C","U","S","D","T">> @@
       <<"L","T","C","-","U","S","D">> :> <<"B","I","N","A","N","C","E",":","L","T","C","U","S","D","T">> @@
       <<"L","I","N","K">> :> <<"B","I","N","A","N","C","E",":","L","I","N","K","U","S","D","T">> @@
       <<"L","I","N","K","-","U","S","D">> :> <<"B","I","N","A","N","C","E",":","L","I","N","K","U","S","D","T">> @@
       <<"B","C","H">> :> <<"B","I","N","A","N","C","E",":","B","C","H","U","S","D","T">> @@
       <<"B","C","H","-","U","S","D">> :> <<"B","I","N","A","N","C","E",":","B","C","H","U","S","D","T">> @@
       <<"S","H","I","B">> :> <<"B","I","N","A","N","C","E",":","S","H","I","B","U","S","D","T">> @@
       <<"S","H","I","B","-","U","S","D">> :> <<"B","I","N","A","N","C","E",":","S","H","I","B","U","S","D","T">> @@
       <<"U","N","I">> :> <<"B","I","N","A","N","C","E",":","U","N","I","U","S","D","T">> @@
       <<"U","N","I","-","U","S","D">> :> <<"B","I","N","A","N","C","E",":","U","N","I","U","S","D","T">> @@
       <<"T","O","N">> :> <<"B","I","N","A","N","C","E",":","T","O","N","U","S","D","T">> @@
       <<"T","O","N","-","U","S","D">> :> <<"B","I","N","A","N","C","E",":","T","O","N","U","S","D","T">> @@
       <<"I","N","J">> :> <<"B","I","N","A","N","C","E",":","I","N","J","U","S","D","T">> @@
       <<"I","N","J","-","U","S","D">> :> <<"B","I","N","A","N","C","E",":","I","N","J","U","S","D","T">> @@
       <<"O","P">> :> <<"B","I","N","A","N","C","E",":","O","P","U","S","D","T">> @@
       <<"O","P","-","U","S","D">> :> <<"B","I","N","A","N","C","E",":","O","P","U","S","D","T">> @@
       <<"A","R","B">> :> <<"B","I","N","A","N","C","E",":","A","R","B","U","S","D","T">> @@
       <<"A","R","B","-","U","S","D">> :> <<"B","I","N","A","N","C","E",":","A","R","B","U","S","D","T">>

\* /^[A-Z0-9]{2,10}$/.test(base)
isCryptoBase(base) ==
  /\ Len(base) >= 2
  /\ Len(base) <= 10
  /\ \A i \in DOMAIN base : base[i] \in Range(UpperChars) \cup Range(DigitChars)

DashUSD == <<"-","U","S","D">>
BinancePrefix == <<"B","I","N","A","N","C","E",":">>
USDTSuffix == <<"U","S","D","T">>

\* Mutant: the symbol is sent to the provider as the client wrote it.
mapToFinnhubSymbol_unmapped(raw) ==
  IF raw = <<>> THEN <<>> ELSE toUpperCase(trim(raw))

\* Mutant: the generic rule takes a base of any length.
mapToFinnhubSymbol_anyBase(raw) ==
  IF raw = <<>> THEN <<>>
  ELSE LET sym == toUpperCase(trim(raw)) IN
    IF sym \in DOMAIN cryptoMap THEN cryptoMap[sym]
    ELSE IF endsWith(sym, DashUSD)
              /\ \A i \in 1..(Len(sym) - 4) :
                   sym[i] \in Range(UpperChars) \cup Range(DigitChars)
      THEN BinancePrefix \o SubSeq(sym, 1, Len(sym) - 4) \o USDTSuffix
    ELSE sym

\* Mutant: the generic rule leaves out the exchange prefix.
mapToFinnhubSymbol_noPrefix(raw) ==
  IF raw = <<>> THEN <<>>
  ELSE LET sym == toUpperCase(trim(raw)) IN
    IF sym \in DOMAIN cryptoMap THEN cryptoMap[sym]
    ELSE IF endsWith(sym, DashUSD)
              /\ isCryptoBase(SubSeq(sym, 1, Len(sym) - 4))
      THEN SubSeq(sym, 1, Len(sym) - 4) \o USDTSuffix
    ELSE sym

\* function mapToFinnhubSymbol(raw); the result for a falsy raw is <<>> (null)
mapToFinnhubSymbol(raw) ==
  IF raw = <<>> THEN <<>>
  ELSE LET sym == toUpperCase(trim(raw)) IN
    IF sym \in DOMAIN cryptoMap THEN cryptoMap[sym]
    ELSE IF endsWith(sym, DashUSD)
              /\ isCryptoBase(SubSeq(sym, 1, Len(sym) - 4))
      THEN BinancePrefix \o SubSeq(sym, 1, Len(sym) - 4) \o USDTSuffix
    ELSE sym

\* Mutant: the pattern is not anchored, one allowed character is enough.
isValidSymbol_unanchored(sym) ==
  \E i \in DOMAIN sym :
    sym[i] \in Range(UpperChars) \cup Range(DigitChars) \cup {".", "-"}

\* function isValidSymbol(sym): /^[A-Z0-9.\-]{1,20}$/.test(sym)
isValidSymbol(sym) ==
  /\ Len(sym) >= 1
  /\ Len(sym) <= 20
  /\ \A i \in DOMAIN sym :
       sym[i] \in Range(UpperChars) \cup Range(DigitChars) \cup {".", "-"}

\* ------------------------------------------------------------ JSON scalars
Num(n) == [t |-> "number", v |-> n]
Null == [t |-> "null", v |-> 0]
Undefined == [t |-> "undefined", v |-> 0]
NotNum == [t |-> "string", v |-> 0]

\* typeof x === 'number' ? x : null
numberOrNull(x) == IF x.t = "number" THEN x ELSE Null

\* process.env.BACKEND_ENV || process.env.NODE_ENV || 'development'
BACKEND_ENV == "development"

\* A JSON string that may be missing: undefined is present = FALSE.
Str(s) == [present |-> TRUE, value |-> s]
NoStr == [present |-> FALSE, value |-> <<>>]

\* x || ''
orEmpty(x) == IF x.present THEN x.value ELSE <<>>

\* The decimal digits of a natural number.
RECURSIVE decimal(_)
decimal(n) ==
  IF n < 10 THEN <<DigitChars[n + 1]>>
  ELSE decimal(n \div 10) \o <<DigitChars[(n % 10) + 1]>>

\* The number a sequence of decimal digits denotes.
RECURSIVE digitsValue(_)
digitsValue(ds) ==
  IF ds = <<>> THEN 0
  ELSE 10 * digitsValue(SubSeq(ds, 1, Len(ds) - 1))
       + ((CHOOSE i \in DOMAIN DigitChars : DigitChars[i] = ds[Len(ds)]) - 1)

\* The length of the longest prefix of s made of decimal digits.
digitRun(s) ==
  LET runs == {k \in 0..Len(s) : \A i \in 1..k : s[i] \in Range(DigitChars)}
  IN CHOOSE k \in runs : \A j \in runs : j <= k

InfinityChars == <<"I","n","f","i","n","i","t","y">>

\* parseFloat(str): the longest numeric prefix (sign, digits, fraction), NaN
\* when there is none.  A finite number is held in thousandths (1.25 is 1250);
\* exponents are not modelled.
parseFloat(str) ==
  LET s == trimStart(str)
      signed == s # <<>> /\ s[1] \in {"+", "-"}
      sign == IF s # <<>> /\ s[1] = "-" THEN -1 ELSE 1
      u == IF signed THEN Tail(s) ELSE s
      n == digitRun(u)
      rest == SubSeq(u, n + 1, Len(u))
      m == IF rest # <<>> /\ rest[1] = "." THEN digitRun(Tail(rest)) ELSE 0
      frac == SubSeq(SubSeq(rest, 2, m + 1) \o <<"0", "0", "0">>, 1, 3)
  IN IF Len(u) >= Len(InfinityChars)
          /\ SubSeq(u, 1, Len(InfinityChars)) = InfinityChars
       THEN [t |-> "Infinity", v |-> sign]
     ELSE IF n = 0 /\ m = 0 THEN [t |-> "NaN", v |-> 0]
     ELSE Num(sign * (1000 * digitsValue(SubSeq(u, 1, n)) + digitsValue(frac)))

\* Mutant: only NaN is turned down, Infinity passes.
isFinite_notNaN(x) == x.t # "NaN"

\* Number.isFinite(x)
isFinite(x) == x.t = "number"

\* -------------------------------------------------------- provider (Finnhub)
\* The body of a quote response: the fields pc, c, h, l, o of the payload.
QuotePayloads ==
  { [pc |-> Num(10), c |-> Num(11), h |-> Num(12), l |-> Num(9), o |-> Num(10)],
    [pc |-> Num(20), c |-> Num(21), h |-> Num(22), l |-> Num(19), o |-> Num(20)],
    [pc |-> Num(10), c |-> NotNum, h |-> Undefined, l |-> Num(9), o |-> Null] }

EmptyObject ==
  [pc |-> Undefined, c |-> Undefined, h |-> Undefined, l |-> Undefined,
   o |-> Undefined]

\* What `await axios.get(url)` can do: reject (network error, timeout, status
\* outside 2xx), or resolve with a 2xx status and a body (hasData = FALSE is
\* a falsy response.data).
FinnhubResponses ==
  { [threw |-> TRUE, status |-> 0, hasData |-> FALSE, data |-> EmptyObject] }
  \cup { [threw |-> FALSE, status |-> 204, hasData |-> FALSE, data |-> EmptyObject] }
  \cup { [threw |-> FALSE, status |-> 200, hasData |-> FALSE, data |-> EmptyObject] }
  \cup { [threw |-> FALSE, status |-> 200, hasData |-> TRUE, data |-> q] :
           q \in QuotePayloads }

\* -------------------------------------------------- provider (Alpha Vantage)
\* data['Realtime Currency Exchange Rate'] of an answer about from -> to with
\* the given '5. Exchange Rate' field.
fxPayload(from, to, rate) ==
  [present |-> TRUE, fromCode |-> Str(from), toCode |-> Str(to), rate |-> rate,
   lastRefreshed |-> Str(<<"2","0","2","4","-","0","1","-","0","1">>)]

NoPayload ==
  [present |-> FALSE, fromCode |-> NoStr, toCode |-> NoStr, rate |-> NoStr,
   lastRefreshed |-> NoStr]

\* The '5. Exchange Rate' fields a 200 answer can carry.
RateFields ==
  { Str(<<"1",".","2","5">>), Str(<<"0",".","8">>), Str(<<"a","b","c">>), Str(<<"I","n","f","i","n","i","t","y">>),
    Str(<<>>), NoStr }

\* What `await axios.get(url)` of /fx can do.
AlphaFxResponses(from, to) ==
  { [threw |-> TRUE, status |-> 0, hasData |-> FALSE, payload |-> NoPayload],
    [threw |-> FALSE, status |-> 204, hasData |-> FALSE, payload |-> NoPayload],
    [threw |-> FALSE, status |-> 200, hasData |-> FALSE, payload |-> NoPayload],
    [threw |-> FALSE, status |-> 200, hasData |-> TRUE, payload |-> NoPayload] }
  \cup { [threw |-> FALSE, status |-> 200, hasData |-> TRUE,
          payload |-> fxPayload(from, to, rate)] : rate \in RateFields }

\* One item of data['bestMatches']; isObject = FALSE is a null item.
Match(symbol, name) ==
  [isObject |-> TRUE, symbol |-> symbol, name |-> name,
   region |-> Str(<<"U","n","i","t","e","d"," ","S","t","a","t","e","s">>), currency |-> Str(<<"U","S","D">>)]
NullMatch ==
  [isObject |-> FALSE, symbol |-> NoStr, name |-> NoStr, region |-> NoStr,
   currency |-> NoStr]

\* The bestMatches lists a 200 answer can carry.
MatchLists ==
  { <<>>,
    << Match(Str(<<"T","S","L","A">>), Str(<<"T","e","s","l","a"," ","I","n","c">>)),
       Match(Str(<<" ">>), Str(<<"N","a","m","e","l","e","s","s">>)),
       Match(Str(<<" ","T","L","0",".","D","E","X"," ">>), Str(<<"T","e","s","l","a">>)),
       Match(Str(<<"T","S","L","A","3","4">>), NoStr) >>,
    << Match(Str(<<"T","L","0",".","F","R","K">>), Str(<<"T","e","s","l","a">>)) >>,
    << Match(Str(<<"T","S","L","A">>), Str(<<"T","e","s","l","a"," ","I","n","c">>)), NullMatch >> }

\* What `await axios.get(url)` of /search can do; isArray = FALSE is a body
\* whose bestMatches is not an array.
AlphaSearchResponses ==
  { [threw |-> TRUE, status |-> 0, hasData |-> FALSE, isArray |-> FALSE,
     bestMatches |-> <<>>],
    [threw |-> FALSE, status |-> 204, hasData |-> FALSE, isArray |-> FALSE,
     bestMatches |-> <<>>],
    [threw |-> FALSE, status |-> 200, hasData |-> FALSE, isArray |-> FALSE,
     bestMatches |-> <<>>],
    [threw |-> FALSE, status |-> 200, hasData |-> TRUE, isArray |-> FALSE,
     bestMatches |-> <<>>] }
  \cup { [threw |-> FALSE, status |-> 200, hasData |-> TRUE, isArray |-> TRUE,
          bestMatches |-> ms] : ms \in MatchLists }

\* --------------------------------------------------------------- TTL cache
QuotePrefix == <<"q","u","o","t","e",":">>

\* `quote:${finnhub}`
quoteCacheKey(finnhub) == QuotePrefix \o finnhub

FxPrefix == <<"f","x",":">>
Arrow == <<"-",">">>
SearchPrefix == <<"s","e","a","r","c","h",":">>

\* `fx:${from}->${to}`
fxCacheKey(from, to) == FxPrefix \o from \o Arrow \o to

\* Mutant: the key keeps the case of the query.
searchCacheKey_caseSensitive(query) == SearchPrefix \o query

\* `search:${query.toUpperCase()}`
searchCacheKey(query) == SearchPrefix \o toUpperCase(query)

\* cached && now - cached.timestamp < CACHE_TTL_MS, for cached = cache.get(key)
\* Mutant: the age in milliseconds is compared with the TTL in seconds.
isFresh_seconds(c, key, now) ==
  /\ key \in DOMAIN c
  /\ now - c[key].timestamp < 60 * 60

\* Mutant: an entry exactly TTL old is still served.
isFresh_inclusive(c, key, now) ==
  /\ key \in DOMAIN c
  /\ now - c[key].timestamp <= CACHE_TTL_MS

isFresh(c, key, now) ==
  /\ key \in DOMAIN c
  /\ now - c[key].timestamp < CACHE_TTL_MS

\* Mutant: a write to a key that has an entry replaces the value and keeps
\* the timestamp of the entry.
cacheSet_keepsTimestamp(c, key, timestamp, value) ==
  (key :> [timestamp |-> IF key \in DOMAIN c THEN c[key].timestamp ELSE timestamp,
           value |-> value]) @@ c

\* cache.set(key, { timestamp, value })
cacheSet(c, key, timestamp, value) ==
  (key :> [timestamp |-> timestamp, value |-> value]) @@ c

\* ------------------------------------------------------------------ inputs
Comma == ","

\* The items separated by commas (the query string a client sends).
RECURSIVE join(_)
join(items) ==
  IF items = <<>> THEN <<>>
  ELSE IF Len(items) = 1 THEN items[1]
  ELSE LET h == Len(items) \div 2
       IN join(SubSeq(items, 1, h)) \o <<Comma>>
            \o join(SubSeq(items, h + 1, Len(items)))

Digits3(i) ==
  << DigitChars[(i \div 100) + 1], DigitChars[((i \div 10) % 10) + 1],
     DigitChars[(i % 10) + 1] >>

\* n distinct items: prefix001, prefix002, ...
Numbered(prefix, n) == [i \in 1..n |-> prefix \o Digits3(i)]

AAPL == <<"A","A","P","L">>

\* The symbols query parameter of the requests made: req.query.symbols is
\* undefined (present = FALSE) or a string.
SymbolsParams ==
  { [present |-> FALSE, value |-> <<>>],
    [present |-> TRUE, value |-> <<"A","$",",","B","I","N","A","N","C","E",":","B","T","C","U","S","D","T">>],
    [present |-> TRUE, value |-> <<"b","t","c">>],
    [present |-> TRUE, value |-> <<" ","B","T","C","-","U","S","D">>],
    [present |-> TRUE, value |-> <<"A","$",",","A","A","P","L",",","a"," ","b",","," ","a","a","p","l">>] }

\* Requests for several valid symbols, after one for a single symbol.
BatchSymbolsParams ==
  { [present |-> TRUE, value |-> <<"B","T","C">>],
    [present |-> TRUE, value |-> <<"A","A","P","L",",","a","$",","," ","x","y","z",",","B","T","C","-","U","S","D">>] }

\* Requests at the cap of MAX_SYMBOLS distinct items: one item too many, all
\* valid; one too many, one of them valid; exactly at the cap after the
\* de-duplication, one of them valid; and requests with no usable item.
BulkSymbolsParams ==
  { [present |-> TRUE, value |-> join(Numbered(<<"S">>, MAX_SYMBOLS + 1))],
    [present |-> TRUE,
     value |-> join(<<AAPL>> \o Numbered(<<"$">>, MAX_SYMBOLS))],
    [present |-> TRUE,
     value |-> join(<<AAPL, <<"a","a","p","l">>>> \o Numbered(<<"$">>, MAX_SYMBOLS - 1))],
    [present |-> FALSE, value |-> <<>>],
    [present |-> TRUE, value |-> <<>>],
    [present |-> TRUE, value |-> <<" ",","," ",",">>],
    [present |-> TRUE, value |-> <<"A","A","A","A","A","A","A","A","A","A","A","A","A","A","A","A","A","A","A","A","A",",","a",":","b">>],
    [present |-> TRUE, value |-> <<"A","A","A","A","A","A","A","A","A","A","A","A","A","A","A","A","A","A","A","A">>] }

\* The from and to query parameters of the /fx requests made.
FxParams ==
  { [from |-> NoStr, to |-> Str(<<"U","S","D">>)],
    [from |-> Str(<<"u","s","d"," ">>), to |-> Str(<<"U","S","D">>)],
    [from |-> Str(<<"e","u","r">>), to |-> Str(<<" ","u","s","d">>)],
    [from |-> Str(<<"E","U","R">>), to |-> Str(<<"U","S","D">>)] }

\* The query parameter of the /search requests made.
SearchParams ==
  { NoStr, Str(<<" "," ">>), Str(<<" ","t","s","l","a">>), Str(<<"T","S","L","A">>),
    Str(<<"0","1","2","3","4","5","6","7","8","9","0","1","2","3","4","5","6","7","8","9","0">>),
    Str(<<" ","0","1","2","3","4","5","6","7","8","9","0","1","2","3","4","5","6","7","8","9"," ">>) }

\* The provider answers a batch is checked under.
BatchResponses ==
  { rsp \in FinnhubResponses :
      rsp.threw \/ (rsp.hasData /\ rsp.data.c.t = "number") }

\* The answers to the call for one symbol of a batch: a rejection, a status
\* other than 200, or a quote whose prices tell the symbols apart.
BatchAnswers(finnhub) ==
  { rsp \in FinnhubResponses : rsp.threw \/ rsp.status = 204 }
  \cup { [threw |-> FALSE, status |-> 200, hasData |-> TRUE,
          data |-> [pc |-> Num(Len(finnhub)), c |-> Num(Len(finnhub) + 1),
                    h |-> Num(Len(finnhub) + 2), l |-> Num(Len(finnhub) - 1),
                    o |-> Num(Len(finnhub))]] }

\* ------------------------------------------------------------------- state
VARIABLES
  env,     \* process.env: which provider keys are configured
  clock,   \* Date.now(), milliseconds since the process started
  cache,   \* const cache = new Map(): key -> { timestamp, value }
  req      \* the requests received so far, in order of arrival

vars == <<env, clock, cache, req>>

\* How long after the previous request a request arrives.  Date.now() is read
\* only when a handler starts, so time is advanced there.
ClockSteps == {0, CACHE_TTL_MS - 1, CACHE_TTL_MS}

\* Mutant: a failed symbol is given a price of zero.
placeholder_zero(raw) ==
  [symbol |-> raw, previousClose |-> Null, current |-> Num(0), high |-> Null,
   low |-> Null, open |-> Null, provider |-> "finnhub"]

\* The all-null entry of a symbol whose provider call failed.
placeholder(raw) ==
  [symbol |-> raw, previousClose |-> Null, current |-> Null, high |-> Null,
   low |-> Null, open |-> Null, provider |-> "finnhub"]

\* Mutant: a payload with a field that is not a number gives the all-null
\* entry.
quoteValue_allOrNothing(raw, response) ==
  LET q == IF response.hasData THEN response.data ELSE EmptyObject
      whole == \A f \in {"pc", "c", "h", "l", "o"} : q[f].t = "number"
      pick(x) == IF whole THEN x ELSE Null
  IN [symbol |-> raw, previousClose |-> pick(q.pc), current |-> pick(q.c),
      high |-> pick(q.h), low |-> pick(q.l), open |-> pick(q.o),
      provider |-> "finnhub"]

\* The entry built from a 200 response: const q = response.data || {}
quoteValue(raw, response) ==
  LET q == IF response.hasData THEN response.data ELSE EmptyObject IN
  [symbol |-> raw,
   previousClose |-> numberOrNull(q.pc),
   current |-> numberOrNull(q.c),
   high |-> numberOrNull(q.h),
   low |-> numberOrNull(q.l),
   open |-> numberOrNull(q.o),
   provider |-> "finnhub"]

\* Mutant: the cached value is returned as stored, under the symbol of the
\* request that fetched it.
hitValue_asStored(cached, raw) == cached.value

\* { ...cached.value, symbol: raw }
hitValue(cached, raw) == [cached.value EXCEPT !.symbol = raw]

\* Mutant: a list over the cap is cut to its first MAX_SYMBOLS symbols.
requestedSymbolsOf_truncated(symbolsParam) ==
  LET items == split(symbolsParam, Comma)
      mapped == [i \in DOMAIN items |-> toUpperCase(trim(items[i]))]
      all == dedupe(SelectSeq(mapped, LAMBDA s : s # <<>>))
  IN IF Len(all) > MAX_SYMBOLS THEN SubSeq(all, 1, MAX_SYMBOLS) ELSE all

\* Mutant: the repeated items of the list are kept.
requestedSymbolsOf_repeated(symbolsParam) ==
  LET items == split(symbolsParam, Comma)
      mapped == [i \in DOMAIN items |-> toUpperCase(trim(items[i]))]
  IN SelectSeq(mapped, LAMBDA s : s # <<>>)

\* symbolsParam.split(',').map(s => s.trim().toUpperCase()).filter(Boolean),
\* then Array.from(new Set(...))
requestedSymbolsOf(symbolsParam) ==
  LET items == split(symbolsParam, Comma)
      mapped == [i \in DOMAIN items |-> toUpperCase(trim(items[i]))]
  IN dedupe(SelectSeq(mapped, LAMBDA s : s # <<>>))

\* Mutant: the invalid symbols are not filtered out.
validSymbolsOf_unfiltered(requestedSymbols) == requestedSymbols

validSymbolsOf(requestedSymbols) == SelectSeq(requestedSymbols, isValidSymbol)
invalidSymbolsOf(requestedSymbols) ==
  SelectSeq(requestedSymbols, LAMBDA s : ~isValidSymbol(s))

\* A request answered by the synchronous part of its handler.
Answered(endpoint, param, now, reads, hits, status, body) ==
  [endpoint |-> endpoint, param |-> param, pc |-> "done", now |-> now,
   pairs |-> <<>>, invalidSymbols |-> <<>>, result |-> <<>>, pending |-> {},
   issued |-> <<>>, reads |-> reads, hits |-> hits, writes |-> <<>>,
   replies |-> <<>>, status |-> status, body |-> body]

\* A request rejected before it reads the clock or the cache.
Rejected(endpoint, param, status, body) ==
  Answered(endpoint, param, 0, <<>>, <<>>, status, body)

\* res.json({ source, environment, data, invalidSymbols }): an undefined
\* invalidSymbols is not serialized.
quotesBody(result, invalidSymbols) ==
  IF Len(invalidSymbols) > 0
    THEN [source |-> "live", environment |-> BACKEND_ENV, data |-> result,
          invalidSymbols |-> invalidSymbols]
    ELSE [source |-> "live", environment |-> BACKEND_ENV, data |-> result]

\* Mutant: the entry is looked up under the client's symbol.
isHit_byClientSymbol(c, pair, now) == isFresh(c, quoteCacheKey(pair.raw), now)

\* The pair's cache entry is fresh at `now`.
isHit(c, pair, now) == isFresh(c, quoteCacheKey(pair.finnhub), now)

\* The pairs of the valid symbols.
pairsOf(validSymbols) ==
  [i \in DOMAIN validSymbols |->
     [raw |-> validSymbols[i], finnhub |-> mapToFinnhubSymbol(validSymbols[i])]]

\* Mutant: the cap is applied to the valid symbols, after the filtering.
QuotesHandler_capAfterFilter(p, now) ==
  IF ~p.present \/ p.value = <<>>
    THEN Rejected("quotes", p, 400, [error |-> "symbols query param is required"])
  ELSE LET requestedSymbols == requestedSymbolsOf(p.value) IN
  IF Len(requestedSymbols) = 0
    THEN Rejected("quotes", p, 400, [error |-> "No symbols provided"])
  ELSE LET validSymbols == validSymbolsOf(requestedSymbols)
           invalidSymbols == invalidSymbolsOf(requestedSymbols) IN
  IF Len(validSymbols) > MAX_SYMBOLS
    THEN Rejected("quotes", p, 400,
                  [error |-> "Too many symbols. Max allowed is 100."])
  ELSE IF Len(validSymbols) = 0
    THEN Rejected("quotes", p, 400,
                  [error |-> "No valid symbols after validation",
                   invalidSymbols |-> invalidSymbols])
  ELSE IF ~env.FINNHUB_API_KEY
    THEN Rejected("quotes", p, 500,
                  [error |-> "FINNHUB_API_KEY is not configured on the server"])
  ELSE LET pairs == pairsOf(validSymbols)
           hits == SelectSeq(pairs, LAMBDA pr : isHit(cache, pr, now))
           misses == SelectSeq(pairs, LAMBDA pr : ~isHit(cache, pr, now))
           result == [raw \in {hits[i].raw : i \in DOMAIN hits} |->
                        hitValue(cache[quoteCacheKey(mapToFinnhubSymbol(raw))], raw)]
       IN [endpoint |-> "quotes", param |-> p,
           pc |-> IF misses = <<>> THEN "done" ELSE "await",
           now |-> now, pairs |-> pairs, invalidSymbols |-> invalidSymbols,
           result |-> result,
           pending |-> {misses[i].raw : i \in DOMAIN misses},
           issued |-> [i \in DOMAIN misses |-> misses[i].finnhub],
           reads |-> [i \in DOMAIN pairs |-> quoteCacheKey(pairs[i].finnhub)],
           hits |-> [raw \in {hits[i].raw : i \in DOMAIN hits} |->
                       cache[quoteCacheKey(mapToFinnhubSymbol(raw))]],
           writes |-> <<>>, replies |-> <<>>,
           status |-> IF misses = <<>> THEN 200 ELSE 0,
           body |-> IF misses = <<>> THEN quotesBody(result, invalidSymbols)
                    ELSE [error |-> ""]]

\* The /quotes handler up to its await: validation, then for every pair the
\* cache lookup and, on a miss, the provider call (axios.get) issued; `now` is
\* its Date.now().  With no
\* miss the join resolves at once and the response is sent before any other
\* event of the server is handled.
QuotesHandler(p, now) ==
  IF ~p.present \/ p.value = <<>>
    THEN Rejected("quotes", p, 400, [error |-> "symbols query param is required"])
  ELSE LET requestedSymbols == requestedSymbolsOf(p.value) IN
  IF Len(requestedSymbols) = 0
    THEN Rejected("quotes", p, 400, [error |-> "No symbols provided"])
  ELSE IF Len(requestedSymbols) > MAX_SYMBOLS
    THEN Rejected("quotes", p, 400,
                  [error |-> "Too many symbols. Max allowed is 100."])
  ELSE LET validSymbols == validSymbolsOf(requestedSymbols)
           invalidSymbols == invalidSymbolsOf(requestedSymbols) IN
  IF Len(validSymbols) = 0
    THEN Rejected("quotes", p, 400,
                  [error |-> "No valid symbols after validation",
                   invalidSymbols |-> invalidSymbols])
  ELSE IF ~env.FINNHUB_API_KEY
    THEN Rejected("quotes", p, 500,
                  [error |-> "FINNHUB_API_KEY is not configured on the server"])
  ELSE LET pairs == pairsOf(validSymbols)
           hits == SelectSeq(pairs, LAMBDA pr : isHit(cache, pr, now))
           misses == SelectSeq(pairs, LAMBDA pr : ~isHit(cache, pr, now))
           result == [raw \in {hits[i].raw : i \in DOMAIN hits} |->
                        hitValue(cache[quoteCacheKey(mapToFinnhubSymbol(raw))], raw)]
       IN [endpoint |-> "quotes", param |-> p,
           pc |-> IF misses = <<>> THEN "done" ELSE "await",
           now |-> now, pairs |-> pairs, invalidSymbols |-> invalidSymbols,
           result |-> result,
           pending |-> {misses[i].raw : i \in DOMAIN misses},
           issued |-> [i \in DOMAIN misses |-> misses[i].finnhub],
           reads |-> [i \in DOMAIN pairs |-> quoteCacheKey(pairs[i].finnhub)],
           hits |-> [raw \in {hits[i].raw : i \in DOMAIN hits} |->
                       cache[quoteCacheKey(mapToFinnhubSymbol(raw))]],
           writes |-> <<>>, replies |-> <<>>,
           status |-> IF misses = <<>> THEN 200 ELSE 0,
           body |-> IF misses = <<>> THEN quotesBody(result, invalidSymbols)
                    ELSE [error |-> ""]]

\* Mutant: the request evicts the entries it finds stale.
QuotesRequest_evictsStale(p, d) ==
  /\ Len(req) < MaxReqs
  /\ clock' = clock + d
  /\ req' = Append(req, QuotesHandler(p, clock + d))
  /\ cache' = [k \in {j \in DOMAIN cache :
                        clock + d - cache[j].timestamp < CACHE_TTL_MS} |-> cache[k]]
  /\ UNCHANGED env

\* A client sends GET /quotes, d milliseconds after the previous request.
QuotesRequest(p, d) ==
  /\ Len(req) < MaxReqs
  /\ clock' = clock + d
  /\ req' = Append(req, QuotesHandler(p, clock + d))
  /\ UNCHANGED <<env, cache>>

\* response.status !== 200 throws inside the try; a rejected axios.get too.
quoteFailed(response) == response.threw \/ response.status # 200

\* The entry of a pair whose axios.get has settled.
settledValue(raw, response) ==
  IF quoteFailed(response) THEN placeholder(raw) ELSE quoteValue(raw, response)

\* Mutant: the placeholder of a failed call is stored like a fetched value.
settledCache_cachesFailure(c, raw, now, response) ==
  cacheSet(c, quoteCacheKey(mapToFinnhubSymbol(raw)), now,
           settledValue(raw, response))

\* The cache after a pair's axios.get has settled: cache.set on success only.
settledCache(c, raw, now, response) ==
  IF quoteFailed(response) THEN c
  ELSE cacheSet(c, quoteCacheKey(mapToFinnhubSymbol(raw)), now,
                quoteValue(raw, response))

\* Mutant: a failed call is not caught in the pair's callback, so the join
\* settles at the first failure and the response is sent then.
QuotesProviderReturns_failFast(r, raw, response) ==
  /\ r \in DOMAIN req
  /\ req[r].endpoint = "quotes"
  /\ req[r].pc = "await"
  /\ raw \in req[r].pending
  /\ UNCHANGED <<env, clock>>
  /\ LET result == (raw :> settledValue(raw, response)) @@ req[r].result
         last == req[r].pending = {raw} \/ quoteFailed(response)
     IN /\ cache' = settledCache(cache, raw, req[r].now, response)
        /\ req' = [req EXCEPT
             ![r].pending = @ \ {raw},
             ![r].result = result,
             ![r].replies = (raw :> response) @@ @,
             ![r].writes =
               IF quoteFailed(response) THEN @
               ELSE (raw :> quoteCacheKey(mapToFinnhubSymbol(raw))) @@ @,
             ![r].pc = IF last THEN "done" ELSE @,
             ![r].status = IF last THEN 200 ELSE @,
             ![r].body = IF last THEN quotesBody(result, req[r].invalidSymbols)
                         ELSE @]

\* Mutant: a failed call is not caught in the pair's callback; the join
\* rejects and the catch of the handler answers 500.
QuotesProviderReturns_uncaught(r, raw, response) ==
  /\ r \in DOMAIN req
  /\ req[r].endpoint = "quotes"
  /\ req[r].pc = "await"
  /\ raw \in req[r].pending
  /\ UNCHANGED <<env, clock>>
  /\ LET result == (raw :> settledValue(raw, response)) @@ req[r].result
         last == req[r].pending = {raw}
         failed == quoteFailed(response)
     IN /\ cache' = settledCache(cache, raw, req[r].now, response)
        /\ req' = [req EXCEPT
             ![r].pending = @ \ {raw},
             ![r].result = IF failed THEN @ ELSE result,
             ![r].replies = (raw :> response) @@ @,
             ![r].writes =
               IF failed THEN @
               ELSE (raw :> quoteCacheKey(mapToFinnhubSymbol(raw))) @@ @,
             ![r].pc = IF last \/ failed THEN "done" ELSE @,
             ![r].status = IF failed THEN 500 ELSE IF last THEN 200 ELSE @,
             ![r].body = IF failed THEN [error |-> "Failed to fetch quotes"]
                         ELSE IF last THEN quotesBody(result, req[r].invalidSymbols)
                         ELSE @]

\* The rest of one pair's callback, run when its axios.get settles; when it
\* was the last one pending, the join resolves and the response is sent.
QuotesProviderReturns(r, raw, response) ==
  /\ r \in DOMAIN req
  /\ req[r].endpoint = "quotes"
  /\ req[r].pc = "await"
  /\ raw \in req[r].pending
  /\ UNCHANGED <<env, clock>>
  /\ LET result == (raw :> settledValue(raw, response)) @@ req[r].result
         last == req[r].pending = {raw}
     IN /\ cache' = settledCache(cache, raw, req[r].now, response)
        /\ req' = [req EXCEPT
             ![r].pending = @ \ {raw},
             ![r].result = result,
             ![r].replies = (raw :> response) @@ @,
             ![r].writes =
               IF quoteFailed(response) THEN @
               ELSE (raw :> quoteCacheKey(mapToFinnhubSymbol(raw))) @@ @,
             ![r].pc = IF last THEN "done" ELSE @,
             ![r].status = IF last THEN 200 ELSE @,
             ![r].body = IF last THEN quotesBody(result, req[r].invalidSymbols)
                         ELSE @]

\* ---------------------------------------------------------------------- /fx
\* new Date().toISOString(), as the milliseconds since the process started
toISOString(now) == Str(decimal(now))

\* Mutant: the currency code is trimmed but not upper-cased.
normalizeCurrency_caseSensitive(x) == trim(orEmpty(x))

\* (req.query.from || '').toUpperCase().trim()
normalizeCurrency(x) == trim(toUpperCase(orEmpty(x)))

\* The /fx handler up to its await; `now` is Date.now().
FxHandler(p, now) ==
  LET from == normalizeCurrency(p.from)
      to == normalizeCurrency(p.to)
      cacheKey == fxCacheKey(from, to)
  IN
  IF from = <<>> \/ to = <<>>
    THEN Rejected("fx", p, 400, [error |-> "from and to query params are required"])
  ELSE IF from = to
    THEN Answered("fx", p, now, <<>>, <<>>, 200,
           [fromCurrency |-> Str(from), toCurrency |-> Str(to), rate |-> Num(1000),
            provider |-> "alphavantage", lastUpdated |-> toISOString(now)])
  ELSE IF ~env.ALPHA_FX_KEY
    THEN Rejected("fx", p, 500,
           [error |-> "ALPHA_FX_KEY (or ALPHA_VANTAGE_KEY) is not configured on the server"])
  ELSE IF isFresh(cache, cacheKey, now)
    THEN Answered("fx", p, now, <<cacheKey>>, (cacheKey :> cache[cacheKey]), 200,
                  cache[cacheKey].value)
  ELSE [endpoint |-> "fx", param |-> p, pc |-> "await", now |-> now,
        pairs |-> <<>>, invalidSymbols |-> <<>>, result |-> <<>>,
        pending |-> {cacheKey}, issued |-> <<cacheKey>>, reads |-> <<cacheKey>>,
        hits |-> <<>>, writes |-> <<>>, replies |-> <<>>, status |-> 0,
        body |-> [error |-> ""]]

\* A client sends GET /fx, d milliseconds after the previous request.
FxRequest(p, d) ==
  /\ Len(req) < MaxReqs
  /\ clock' = clock + d
  /\ req' = Append(req, FxHandler(p, clock + d))
  /\ UNCHANGED <<env, cache>>

\* The checks of the try block that throw: the status, the payload and its
\* '5. Exchange Rate' field, the parsed rate.
fxFailed(response) ==
  \/ response.threw
  \/ response.status # 200
  \/ ~response.hasData
  \/ ~response.payload.present
  \/ orEmpty(response.payload.rate) = <<>>
  \/ ~isFinite(parseFloat(response.payload.rate.value))

\* const fxObj = { fromCurrency, toCurrency, rate, provider, lastUpdated }
fxObj(response) ==
  [fromCurrency |-> response.payload.fromCode,
   toCurrency |-> response.payload.toCode,
   rate |-> parseFloat(response.payload.rate.value),
   provider |-> "alphavantage",
   lastUpdated |-> response.payload.lastRefreshed]

\* err.message of what the try block of /fx throws for a provider answer: the
\* rejection of axios.get, or the Error of the first failing check.
fxErrorMessage(response) ==
  IF response.threw THEN "Network Error"
  ELSE IF response.status # 200 THEN "Alpha Vantage FX status 204"
  ELSE IF ~response.hasData \/ ~response.payload.present
          \/ orEmpty(response.payload.rate) = <<>>
    THEN "Bad FX response from Alpha Vantage"
  ELSE "FX rate is not a number"

\* Mutant: the catch block of /fx echoes the error it caught.
fxErrorBody_echo(response) ==
  [error |-> "Failed to fetch FX rate", message |-> fxErrorMessage(response)]

\* The body the catch block of /fx sends for the error it caught.
fxErrorBody(response) ==
  [error |-> "Failed to fetch FX rate"]

\* The rest of the /fx handler, run when its axios.get settles.
FxProviderReturns(r, response) ==
  /\ r \in DOMAIN req
  /\ req[r].endpoint = "fx"
  /\ req[r].pc = "await"
  /\ UNCHANGED <<env, clock>>
  /\ LET cacheKey == CHOOSE k \in req[r].pending : TRUE IN
     IF fxFailed(response)
       THEN /\ cache' = cache
            /\ req' = [req EXCEPT
                 ![r].pending = {}, ![r].pc = "done",
                 ![r].replies = (cacheKey :> response) @@ @,
                 ![r].status = 500,
                 ![r].body = fxErrorBody(response)]
       ELSE /\ cache' = cacheSet(cache, cacheKey, req[r].now, fxObj(response))
            /\ req' = [req EXCEPT
                 ![r].pending = {}, ![r].pc = "done",
                 ![r].replies = (cacheKey :> response) @@ @,
                 ![r].writes = (cacheKey :> cacheKey) @@ @,
                 ![r].status = 200,
                 ![r].body = fxObj(response)]

\* ------------------------------------------------------------------ /search
\* Mutant: only the items with an empty symbol are dropped.
searchResults_symbolOnly(matches) ==
  SelectSeq([i \in DOMAIN matches |->
               [symbol |-> trim(orEmpty(matches[i].symbol)),
                name |-> trim(orEmpty(matches[i].name)),
                region |-> trim(orEmpty(matches[i].region)),
                currency |-> trim(orEmpty(matches[i].currency))]],
            LAMBDA res : Len(res.symbol) > 0)

\* matches.map(m => ({ symbol, name, region, currency })).filter(...)
searchResults(matches) ==
  SelectSeq([i \in DOMAIN matches |->
               [symbol |-> trim(orEmpty(matches[i].symbol)),
                name |-> trim(orEmpty(matches[i].name)),
                region |-> trim(orEmpty(matches[i].region)),
                currency |-> trim(orEmpty(matches[i].currency))]],
            LAMBDA res : Len(res.symbol) > 0 /\ Len(res.name) > 0)

\* Mutant: /search does not look at the provider key before it reads the
\* cache and calls the provider.
SearchHandler_keyUnchecked(p, now) ==
  LET query == trim(orEmpty(p))
      cacheKey == searchCacheKey(query)
  IN
  IF query = <<>>
    THEN Rejected("search", p, 400, [error |-> "Missing query parameter"])
  ELSE IF Len(query) < 1 \/ Len(query) > 20
    THEN Rejected("search", p, 400,
           [error |-> "Query length must be between 1 and 20 characters"])
  ELSE IF isFresh(cache, cacheKey, now)
    THEN Answered("search", p, now, <<cacheKey>>, (cacheKey :> cache[cacheKey]),
                  200, cache[cacheKey].value)
  ELSE [endpoint |-> "search", param |-> p, pc |-> "await", now |-> now,
        pairs |-> <<>>, invalidSymbols |-> <<>>, result |-> <<>>,
        pending |-> {cacheKey}, issued |-> <<cacheKey>>, reads |-> <<cacheKey>>,
        hits |-> <<>>, writes |-> <<>>, replies |-> <<>>, status |-> 0,
        body |-> [error |-> ""]]

\* The /search handler up to its await; `now` is Date.now().
SearchHandler(p, now) ==
  LET query == trim(orEmpty(p))
      cacheKey == searchCacheKey(query)
  IN
  IF query = <<>>
    THEN Rejected("search", p, 400, [error |-> "Missing query parameter"])
  ELSE IF Len(query) < 1 \/ Len(query) > 20
    THEN Rejected("search", p, 400,
           [error |-> "Query length must be between 1 and 20 characters"])
  ELSE IF ~env.ALPHA_FX_KEY
    THEN Rejected("search", p, 500,
           [error |-> "ALPHA_FX_KEY (or ALPHA_VANTAGE_KEY) is not configured on the server"])
  ELSE IF isFresh(cache, cacheKey, now)
    THEN Answered("search", p, now, <<cacheKey>>, (cacheKey :> cache[cacheKey]),
                  200, cache[cacheKey].value)
  ELSE [endpoint |-> "search", param |-> p, pc |-> "await", now |-> now,
        pairs |-> <<>>, invalidSymbols |-> <<>>, result |-> <<>>,
        pending |-> {cacheKey}, issued |-> <<cacheKey>>, reads |-> <<cacheKey>>,
        hits |-> <<>>, writes |-> <<>>, replies |-> <<>>, status |-> 0,
        body |-> [error |-> ""]]

\* A client sends GET /search, d milliseconds after the previous request.
SearchRequest(p, d) ==
  /\ Len(req) < MaxReqs
  /\ clock' = clock + d
  /\ req' = Append(req, SearchHandler(p, clock + d))
  /\ UNCHANGED <<env, cache>>

\* What throws in the try block: the status, and m['1. symbol'] of a null item.
searchFailed(response) ==
  \/ response.threw
  \/ response.status # 200
  \/ /\ response.hasData
     /\ response.isArray
     /\ \E i \in DOMAIN response.bestMatches : ~response.bestMatches[i].isObject

\* const payload = { provider, environment, query, results }
searchPayload(query, response) ==
  [provider |-> "alphavantage", environment |-> BACKEND_ENV, query |-> query,
   results |-> IF response.hasData /\ response.isArray
                 THEN searchResults(response.bestMatches) ELSE <<>>]

\* The rest of the /search handler, run when its axios.get settles.
SearchProviderReturns(r, response) ==
  /\ r \in DOMAIN req
  /\ req[r].endpoint = "search"
  /\ req[r].pc = "await"
  /\ UNCHANGED <<env, clock>>
  /\ LET cacheKey == CHOOSE k \in req[r].pending : TRUE
         payload == searchPayload(trim(orEmpty(req[r].param)), response)
     IN
     IF searchFailed(response)
       THEN /\ cache' = cache
            /\ req' = [req EXCEPT
                 ![r].pending = {}, ![r].pc = "done",
                 ![r].replies = (cacheKey :> response) @@ @,
                 ![r].status = 502,
                 ![r].body = [error |-> "Failed to search symbols via Alpha Vantage"]]
       ELSE /\ cache' = cacheSet(cache, cacheKey, req[r].now, payload)
            /\ req' = [req EXCEPT
                 ![r].pending = {}, ![r].pc = "done",
                 ![r].replies = (cacheKey :> response) @@ @,
                 ![r].writes = (cacheKey :> cacheKey) @@ @,
                 ![r].status = 200,
                 ![r].body = payload]

\* ----------------------------------------------------------- specifications
\* The process after start-up: each provider key is set or not, the cache is
\* empty, no request has arrived.
Init ==
  /\ env \in [FINNHUB_API_KEY : BOOLEAN, ALPHA_FX_KEY : BOOLEAN]
  /\ clock = 0
  /\ cache = <<>>
  /\ req = <<>>

\* Start-up with the Alpha Vantage key set, which /quotes never reads.
InitQuotes == Init /\ env.ALPHA_FX_KEY

\* Start-up with the Finnhub key set, which /fx and /search never read.
InitAlpha == Init /\ env.FINNHUB_API_KEY

\* The three endpoints sharing the cache, each under a few requests and
\* provider answers.
SharedSymbolsParams ==
  { pr \in SymbolsParams : pr.present /\ Len(pr.value) <= 3 }
SharedFxParams == { pr \in FxParams : pr.from.present }
SharedSearchParams == { pr \in SearchParams : pr.present /\ Len(pr.value) <= 5 /\ Len(trim(pr.value)) > 0 }
SharedFxResponses(from, to) ==
  { rsp \in AlphaFxResponses(from, to) :
      rsp.threw \/ (rsp.payload.present /\ rsp.payload.rate.present
                     /\ isFinite(parseFloat(rsp.payload.rate.value))) }
SharedSearchResponses ==
  { rsp \in AlphaSearchResponses :
      rsp.threw \/ (rsp.isArray /\ Len(rsp.bestMatches) \in {1, 4}) }

\* The requests of an endpoint whose provider call has not settled.
awaiting(endpoint) ==
  {r \in DOMAIN req : req[r].endpoint = endpoint /\ req[r].pc = "await"}

\* The currency codes of an awaiting /fx request.
fxFrom(r) == normalizeCurrency(req[r].param.from)
fxTo(r) == normalizeCurrency(req[r].param.to)

Next ==
  \/ \E p \in SharedSymbolsParams : \E d \in ClockSteps : QuotesRequest(p, d)
  \/ \E r \in awaiting("quotes") : \E raw \in req[r].pending :
       \E response \in BatchResponses : QuotesProviderReturns(r, raw, response)
  \/ \E p \in SharedFxParams : \E d \in ClockSteps : FxRequest(p, d)
  \/ \E r \in awaiting("fx") :
       \E response \in SharedFxResponses(fxFrom(r), fxTo(r)) :
         FxProviderReturns(r, response)
  \/ \E p \in SharedSearchParams : \E d \in ClockSteps : SearchRequest(p, d)
  \/ \E r \in awaiting("search") : \E response \in SharedSearchResponses :
       SearchProviderReturns(r, response)

Spec == Init /\ [][Next]_vars

\* The /quotes endpoint under its requests.
NextQuotes ==
  \/ \E p \in SymbolsParams : \E d \in ClockSteps : QuotesRequest(p, d)
  \/ \E r \in awaiting("quotes") : \E raw \in req[r].pending :
       \E response \in FinnhubResponses : QuotesProviderReturns(r, raw, response)

SpecQuotes == InitQuotes /\ [][NextQuotes]_vars

\* The /quotes endpoint receiving the requests at the symbol cap.
NextBulk ==
  \/ \E p \in BulkSymbolsParams : QuotesRequest(p, 0)
  \/ \E r \in awaiting("quotes") : \E raw \in req[r].pending :
       \E response \in BatchResponses : QuotesProviderReturns(r, raw, response)

SpecBulk == InitQuotes /\ [][NextBulk]_vars

\* The /quotes endpoint receiving batches of several valid symbols, at most
\* MaxBatches of them.
NextBatch ==
  \/ \E p \in BatchSymbolsParams :
       /\ QuotesRequest(p, 0)
       /\ Cardinality({r \in DOMAIN req' : Len(req'[r].pairs) > 1}) <= MaxBatches
  \/ \E r \in awaiting("quotes") : \E raw \in req[r].pending :
       \E response \in BatchAnswers(mapToFinnhubSymbol(raw)) : QuotesProviderReturns(r, raw, response)

SpecBatch == InitQuotes /\ [][NextBatch]_vars

\* The /fx endpoint under its requests.
NextFx ==
  \/ \E p \in FxParams : \E d \in ClockSteps : FxRequest(p, d)
  \/ \E r \in awaiting("fx") :
       \E response \in AlphaFxResponses(fxFrom(r), fxTo(r)) :
         FxProviderReturns(r, response)

SpecFx == InitAlpha /\ [][NextFx]_vars

\* The /search endpoint under its requests.
NextSearch ==
  \/ \E p \in SearchParams : \E d \in ClockSteps : SearchRequest(p, d)
  \/ \E r \in awaiting("search") : \E response \in AlphaSearchResponses :
       SearchProviderReturns(r, response)

SpecSearch == InitAlpha /\ [][NextSearch]_vars

\* The three endpoints under requests that are refused and requests whose
\* provider call fails in each of its ways.
FailureSymbolsParams ==
  { [present |-> FALSE, value |-> <<>>],
    [present |-> TRUE, value |-> <<"A","$">>],
    [present |-> TRUE, value |-> <<"b","t","c">>] }
FailureFxParams ==
  { pr \in FxParams : ~pr.from.present \/ pr.from.value = <<"E","U","R">> }
FailureSearchParams ==
  { pr \in SearchParams : ~pr.present \/ Len(pr.value) \in {4, 21} }

NextFailures ==
  \/ \E p \in FailureSymbolsParams : QuotesRequest(p, 0)
  \/ \E r \in awaiting("quotes") : \E raw \in req[r].pending :
       \E response \in FinnhubResponses : QuotesProviderReturns(r, raw, response)
  \/ \E p \in FailureFxParams : FxRequest(p, 0)
  \/ \E r \in awaiting("fx") :
       \E response \in AlphaFxResponses(fxFrom(r), fxTo(r)) :
         FxProviderReturns(r, response)
  \/ \E p \in FailureSearchParams : SearchRequest(p, 0)
  \/ \E r \in awaiting("search") : \E response \in AlphaSearchResponses :
       SearchProviderReturns(r, response)

SpecFailures == Init /\ [][NextFailures]_vars

\* ------------------------------------------- /fx, cross-rate (Finnhub forex)
\* const BASE = 'USD'; the cache key is `fx:${BASE}`
BASE == <<"U","S","D">>
crossCacheKey == FxPrefix \o BASE

EUR == <<"E","U","R">>
GBP == <<"G","B","P">>
ZZZ == <<"Z","Z","Z">>

\* data.quote of a forex/rates answer, as the entries of the codes asked
\* about; Undefined is a code the table does not list.  Rates are held in
\* thousandths.
Codes == {EUR, GBP, ZZZ}
RateTable(eur, gbp) == (EUR :> eur) @@ (GBP :> gbp) @@ (ZZZ :> Undefined)
RateTables ==
  { RateTable(Num(910), Num(780)), RateTable(Num(0), Num(780)),
    RateTable(NotNum, Num(800)) }

\* data.quote || {}
EmptyTable == RateTable(Undefined, Undefined)

\* What `await axios.get(url)` of the cross-rate /fx can do; hasQuote = FALSE
\* is a body without a quote table.
CrossResponses ==
  { [threw |-> TRUE, status |-> 0, hasData |-> FALSE, hasQuote |-> FALSE,
     quote |-> EmptyTable],
    [threw |-> FALSE, status |-> 204, hasData |-> FALSE, hasQuote |-> FALSE,
     quote |-> EmptyTable],
    [threw |-> FALSE, status |-> 200, hasData |-> FALSE, hasQuote |-> FALSE,
     quote |-> EmptyTable],
    [threw |-> FALSE, status |-> 200, hasData |-> TRUE, hasQuote |-> FALSE,
     quote |-> EmptyTable] }
  \cup { [threw |-> FALSE, status |-> 200, hasData |-> TRUE, hasQuote |-> TRUE,
          quote |-> tb] : tb \in RateTables }

\* Mutant: the base currency is looked up in the table like any other code.
rateFromBase_baseFromTable(baseRates, code) ==
  IF code \in DOMAIN baseRates /\ baseRates[code].t = "number"
    THEN baseRates[code]
  ELSE Null

\* const rateFromBase = (code) => ...: 1.0 for the base, the table's entry
\* when it is a number, null otherwise.
rateFromBase(baseRates, code) ==
  IF code = BASE THEN Num(1000)
  ELSE IF code \in DOMAIN baseRates /\ baseRates[code].t = "number"
    THEN baseRates[code]
  ELSE Null

\* rTo / rFrom of two numbers: the quotient kept as numerator and
\* denominator, Infinity or NaN when the divisor is zero.
divide(rTo, rFrom) ==
  IF rFrom.v # 0 THEN [t |-> "number", num |-> rTo.v, den |-> rFrom.v]
  ELSE IF rTo.v = 0 THEN [t |-> "NaN", num |-> 0, den |-> 0]
  ELSE [t |-> "Infinity", num |-> rTo.v, den |-> 0]

\* The answer computed from the rate table: 400 when a leg is null, the cross
\* rate otherwise.
crossStatus(from, to, baseRates) ==
  IF rateFromBase(baseRates, from) = Null \/ rateFromBase(baseRates, to) = Null
    THEN 400 ELSE 200
crossBody(from, to, baseRates) ==
  IF crossStatus(from, to, baseRates) = 400
    THEN [error |-> "Unsupported currency code",
          details |-> [from |-> from, to |-> to]]
    ELSE [from |-> from, to |-> to,
          rate |-> divide(rateFromBase(baseRates, to),
                          rateFromBase(baseRates, from)),
          provider |-> "finnhub"]

\* String(x).toUpperCase().trim()
crossCode(x) == trim(toUpperCase(x.value))

\* The cross-rate /fx handler up to its await; `now` is Date.now().
CrossHandler(p, now) ==
  IF orEmpty(p.from) = <<>> \/ orEmpty(p.to) = <<>>
    THEN Rejected("fx", p, 400, [error |-> "from and to query params are required"])
  ELSE LET from == crossCode(p.from)
           to == crossCode(p.to) IN
  IF from = to
    THEN Rejected("fx", p, 200,
           [from |-> from, to |-> to, rate |-> divide(Num(1000), Num(1000)),
            provider |-> "finnhub"])
  ELSE IF ~env.FINNHUB_API_KEY
    THEN Rejected("fx", p, 500,
           [error |-> "FINNHUB_API_KEY is not configured on the server"])
  ELSE IF isFresh(cache, crossCacheKey, now)
    THEN Answered("fx", p, now, <<crossCacheKey>>,
                  (crossCacheKey :> cache[crossCacheKey]),
                  crossStatus(from, to, cache[crossCacheKey].value),
                  crossBody(from, to, cache[crossCacheKey].value))
  ELSE [endpoint |-> "fx", param |-> p, pc |-> "await", now |-> now,
        pairs |-> <<>>, invalidSymbols |-> <<>>, result |-> <<>>,
        pending |-> {crossCacheKey}, issued |-> <<crossCacheKey>>,
        reads |-> <<crossCacheKey>>, hits |-> <<>>, writes |-> <<>>,
        replies |-> <<>>, status |-> 0, body |-> [error |-> ""]]

\* A client sends GET /fx to the cross-rate server, d milliseconds after the
\* previous request.
CrossRequest(p, d) ==
  /\ Len(req) < MaxReqs
  /\ clock' = clock + d
  /\ req' = Append(req, CrossHandler(p, clock + d))
  /\ UNCHANGED <<env, cache>>

\* String(err) of what the try block caught.
crossErrorText(response) ==
  IF response.threw THEN "Error: Network Error" ELSE "Error: Finnhub FX status"

\* The rest of the cross-rate handler, run when its axios.get settles.
CrossProviderReturns(r, response) ==
  /\ r \in DOMAIN req
  /\ req[r].endpoint = "fx"
  /\ req[r].pc = "await"
  /\ UNCHANGED <<env, clock>>
  /\ LET from == crossCode(req[r].param.from)
         to == crossCode(req[r].param.to)
         baseRates == IF response.hasData /\ response.hasQuote
                        THEN response.quote ELSE EmptyTable
     IN
     IF response.threw \/ response.status # 200
       THEN /\ cache' = cache
            /\ req' = [req EXCEPT
                 ![r].pending = {}, ![r].pc = "done",
                 ![r].replies = (crossCacheKey :> response) @@ @,
                 ![r].status = 500,
                 ![r].body = [error |-> "Failed to fetch FX rate",
                              message |-> crossErrorText(response)]]
       ELSE /\ cache' = cacheSet(cache, crossCacheKey, req[r].now, baseRates)
            /\ req' = [req EXCEPT
                 ![r].pending = {}, ![r].pc = "done",
                 ![r].replies = (crossCacheKey :> response) @@ @,
                 ![r].writes = (crossCacheKey :> crossCacheKey) @@ @,
                 ![r].status = crossStatus(from, to, baseRates),
                 ![r].body = crossBody(from, to, baseRates)]

\* The from and to parameters sent to the cross-rate server.
CrossParams ==
  { [from |-> Str(<<"e","u","r">>), to |-> Str(<<"G","B","P"," ">>)],
    [from |-> Str(EUR), to |-> Str(BASE)],
    [from |-> Str(BASE), to |-> Str(ZZZ)],
    [from |-> Str(ZZZ), to |-> Str(<<"z","z","z">>)],
    [from |-> Str(<<" ">>), to |-> Str(<<" "," ">>)],
    [from |-> Str(<<>>), to |-> Str(BASE)],
    [from |-> NoStr, to |-> Str(BASE)] }

\* The cross-rate server under its /fx requests.
NextCross ==
  \/ \E p \in CrossParams : \E d \in ClockSteps : CrossRequest(p, d)
  \/ \E r \in awaiting("fx") : \E response \in CrossResponses :
       CrossProviderReturns(r, response)

SpecCross == InitQuotes /\ [][NextCross]_vars

\* ------------------------------------- /fx, direct rate, unsupported codes
\* The currency codes Alpha Vantage quotes, of those the requests name.
AlphaSupported == {EUR, GBP, BASE}

\* The answers to CURRENCY_EXCHANGE_RATE for a pair: for a code the provider
\* does not quote, a rejection, a status other than 200 or a body without
\* 'Realtime Currency Exchange Rate' (an error message).
AlphaAnswers(from, to) ==
  IF {from, to} \subseteq AlphaSupported
    THEN SharedFxResponses(from, to)
    ELSE {rsp \in AlphaFxResponses(from, to) : ~rsp.payload.present}

\* Requests to /fx that name a code the provider does not quote, and one
\* that does not.
CodeParams ==
  { [from |-> Str(EUR), to |-> Str(ZZZ)],
    [from |-> Str(<<"z","z","z"," ">>), to |-> Str(ZZZ)],
    [from |-> Str(ZZZ), to |-> Str(<<"u","s","d">>)],
    [from |-> Str(EUR), to |-> Str(BASE)] }

NextFxCodes ==
  \/ \E p \in CodeParams : \E d \in ClockSteps : FxRequest(p, d)
  \/ \E r \in awaiting("fx") :
       \E response \in AlphaAnswers(fxFrom(r), fxTo(r)) :
         FxProviderReturns(r, response)

SpecFxCodes == InitAlpha /\ [][NextFxCodes]_vars

\* -------------------------------------------------- mapToFinnhubSymbol calls
\* The strings mapToFinnhubSymbol is called with: every key of the table, and
\* aliases, pairs and tickers in the spellings a client may send.
MapperInputs ==
  DOMAIN cryptoMap \cup
  {
    <<" ","b","t","c"," ">>,
    <<"b","t","c","-","u","s","d">>,
    <<"e","t","h">>,
    <<"D","o","g","e","-","U","s","d">>,
    <<"o","p">>,
    <<"A","A","P","L">>,
    <<"a","a","p","l"," ">>,
    <<" ","b","r","k",".","b">>,
    <<"T","L","0",".","D","E">>,
    <<"B","I","N","A","N","C","E",":","B","T","C","U","S","D","T">>,
    <<"A","-","U","S","D">>,
    <<"A","B","-","U","S","D">>,
    <<"a","b","-","u","s","d">>,
    <<"A","B","C","D","E","F","G","H","I","J","-","U","S","D">>,
    <<"A","B","C","D","E","F","G","H","I","J","K","-","U","S","D">>,
    <<"A",".","B","-","U","S","D">>,
    <<"X","-","U","S","D","-","U","S","D">>,
    <<"-","U","S","D">>,
    <<"U","S","D">>,
    <<"B","T","C","-","U","S","D","T">>,
    <<"B","T","C","-","E","U","R">>,
    <<"9","A","-","u","s","d">>,
    <<" ">>,
    <<"B","T","C"," ","-","U","S","D">> }

\* One call of mapToFinnhubSymbol(raw), recorded with what it returned.  A
\* key of the table is tried as the first call only.
MapperCall(raw) ==
  /\ Len(req) < MaxReqs
  /\ Len(req) = 0 \/ raw \notin DOMAIN cryptoMap
  /\ req' = Append(req, [endpoint |-> "mapToFinnhubSymbol", param |-> raw,
                          pc |-> "done", returned |-> mapToFinnhubSymbol(raw)])
  /\ UNCHANGED <<env, clock, cache>>

\* Calls of the mapper between the events of /quotes requests.
NextMapper ==
  \/ \E raw \in MapperInputs : MapperCall(raw)
  \/ \E p \in SharedSymbolsParams : QuotesRequest(p, 0)
  \/ \E r \in awaiting("quotes") : \E raw \in req[r].pending :
       \E response \in BatchResponses : QuotesProviderReturns(r, raw, response)

SpecMapper == InitQuotes /\ [][NextMapper]_vars

\* The symbols that pass isValidSymbol and are mapped two at a time: every
\* key of the table, pairs the generic rule takes or refuses, and tickers
\* that look like the provider symbols of pairs.
ValidMapperInputs ==
  DOMAIN cryptoMap \cup
  {
    <<"A","A","P","L">>,
    <<"B","R","K",".","B">>,
    <<"A","B","-","U","S","D">>,
    <<"A","B","U","S","D","T">>,
    <<"A","B">>,
    <<"A","-","U","S","D">>,
    <<"A","B","C","D","E","F","G","H","I","J","K","-","U","S","D">>,
    <<"A",".","B","-","U","S","D">>,
    <<"B","T","C","U","S","D","T">>,
    <<"B","T","C","-","U","S","D","T">>,
    <<"B","T","C","-","U","S","D","-","U","S","D">>,
    <<"B","T","C","U","S","D">>,
    <<"B","T","C",".","U","S","D">>,
    <<"-","U","S","D">>,
    <<"U","S","D">> }

\* One call of mapToFinnhubSymbol for a valid symbol, as pairsOf makes it.
ValidSymbolMapped(raw) ==
  /\ Len(req) < MaxReqs
  /\ isValidSymbol(raw)
  /\ req' = Append(req, [endpoint |-> "mapToFinnhubSymbol", param |-> raw,
                          pc |-> "done", returned |-> mapToFinnhubSymbol(raw)])
  /\ UNCHANGED <<env, clock, cache>>

NextPairs == \E raw \in ValidMapperInputs : ValidSymbolMapped(raw)

\* The mapper reads no key: start-up with both keys set.
InitPairs == InitQuotes /\ env.FINNHUB_API_KEY

SpecPairs == InitPairs /\ [][NextPairs]_vars

\* ------------------------------------------------ cache keys of the endpoints
\* The three endpoints under parameters whose text holds the prefixes and the
\* separator of the cache keys.
KeySymbolsParams ==
  { [present |-> TRUE, value |-> <<"a","a","p","l">>],
    [present |-> TRUE, value |-> <<"b","t","c">>] }
KeyFxParams ==
  { [from |-> Str(<<"a","-",">","b">>), to |-> Str(<<"c">>)],
    [from |-> Str(<<"A">>), to |-> Str(<<"b","-",">","c"," ">>)],
    [from |-> Str(<<"e","u","r">>), to |-> Str(<<"u","s","d">>)] }
KeySearchParams ==
  { Str(<<"a","a","p","l">>), Str(<<"f","x",":","a","-",">","b">>) }

NextKeys ==
  \/ \E p \in KeySymbolsParams : QuotesRequest(p, 0)
  \/ \E r \in awaiting("quotes") : \E raw \in req[r].pending :
       \E response \in BatchResponses : QuotesProviderReturns(r, raw, response)
  \/ \E p \in KeyFxParams : FxRequest(p, 0)
  \/ \E r \in awaiting("fx") :
       \E response \in SharedFxResponses(fxFrom(r), fxTo(r)) :
         FxProviderReturns(r, response)
  \/ \E p \in KeySearchParams : SearchRequest(p, 0)
  \/ \E r \in awaiting("search") : \E response \in SharedSearchResponses :
       SearchProviderReturns(r, response)

SpecKeys == Init /\ [][NextKeys]_vars

\* ------------------------------------------- requests that end in a response
\* A query parameter given more than once (symbols=a&symbols=b) reaches the
\* handler as an array, not a string.
RepeatedParam == [present |-> TRUE, repeated |-> TRUE, value |-> <<>>]

\* What becomes of a request whose async handler throws outside its try
\* blocks: the promise it returned rejects.  A router that ignores the
\* promise (Express 4) sends nothing; one that catches the rejection
\* (Express 5) sends its own 500 page.
RejectionOutcomes == {"ignored", "caught"}

\* The handler of the endpoint called with a repeated parameter: the first
\* string method applied to the array (symbolsParam.split, toUpperCase, trim)
\* throws a TypeError before any response is sent.
ThrowingHandler(endpoint, now, outcome) ==
  [endpoint |-> endpoint, param |-> RepeatedParam,
   pc |-> IF outcome = "caught" THEN "done" ELSE "rejected",
   now |-> now, pairs |-> <<>>, invalidSymbols |-> <<>>, result |-> <<>>,
   pending |-> {}, issued |-> <<>>, reads |-> <<>>, hits |-> <<>>,
   writes |-> <<>>, replies |-> <<>>,
   status |-> IF outcome = "caught" THEN 500 ELSE 0,
   body |-> IF outcome = "caught" THEN [page |-> "Internal Server Error"]
            ELSE [error |-> ""]]

\* A client sends a request with a repeated parameter to the endpoint.
RepeatedParamRequest(endpoint, outcome) ==
  /\ Len(req) < MaxReqs
  /\ req' = Append(req, ThrowingHandler(endpoint, clock, outcome))
  /\ UNCHANGED <<env, clock, cache>>

\* The provider calls that are outstanding settle.
ProviderSettles ==
  \/ \E r \in awaiting("quotes") : \E raw \in req[r].pending :
       \E response \in BatchResponses : QuotesProviderReturns(r, raw, response)
  \/ \E r \in awaiting("fx") :
       \E response \in SharedFxResponses(fxFrom(r), fxTo(r)) :
         FxProviderReturns(r, response)
  \/ \E r \in awaiting("search") : \E response \in SharedSearchResponses :
       SearchProviderReturns(r, response)

\* The requests of the three endpoints, with every issued provider call
\* completing in the end.
NextLive ==
  \/ \E p \in FailureSymbolsParams : QuotesRequest(p, 0)
  \/ \E p \in FailureFxParams : FxRequest(p, 0)
  \/ \E p \in FailureSearchParams : SearchRequest(p, 0)
  \/ \E endpoint \in {"quotes", "fx", "search"} : \E outcome \in RejectionOutcomes :
       RepeatedParamRequest(endpoint, outcome)
  \/ ProviderSettles

SpecLive == Init /\ [][NextLive]_vars /\ WF_vars(ProviderSettles)

\* ------------------------------------------ aliases of one provider symbol
\* Requests naming BTC alone, and BTC together with its alias BTC-USD.
AliasSymbolsParams ==
  { [present |-> TRUE, value |-> <<"B","T","C">>],
    [present |-> TRUE, value |-> <<"b","t","c",","," ","B","T","C","-","U","S","D">>] }

NextAlias ==
  \/ \E p \in AliasSymbolsParams : \E d \in {0, CACHE_TTL_MS} : QuotesRequest(p, d)
  \/ \E r \in awaiting("quotes") : \E raw \in req[r].pending :
       \E response \in BatchResponses : QuotesProviderReturns(r, raw, response)

SpecAlias == InitQuotes /\ [][NextAlias]_vars

\* ------------------------------------------------------- POST /telemetry
\* A JSON string value; typeof x === 'string' is x.t = "string".
Text(s) == [t |-> "string", chars |-> s]

\* A JSON number that is not an integer.
Fraction(n, thousandths) == [t |-> "number", v |-> n, frac |-> thousandths]

HexChars == Range(DigitChars) \cup {"a","b","c","d","e","f","A","B","C","D","E","F"}

\* function isUUID(s): 8-4-4-4-12 hexadecimal digits, either case.
isUUID(s) ==
  /\ s.t = "string"
  /\ Len(s.chars) = 36
  /\ \A i \in 1..36 :
       IF i \in {9, 14, 19, 24} THEN s.chars[i] = "-"
       ELSE s.chars[i] \in HexChars

\* The value of the decimal digits s[i..j], -1 when one of them is no digit.
field(s, i, j) ==
  IF \A k \in i..j : s[k] \in Range(DigitChars)
    THEN digitsValue(SubSeq(s, i, j)) ELSE -1

\* Date.parse(s) is a number, for the date-time strings of the ECMAScript
\* format: YYYY-MM-DD and YYYY-MM-DDTHH:mm:ssZ.  Any other string is taken as
\* unparseable.
isDateOnly(s) ==
  /\ Len(s) = 10
  /\ s[5] = "-" /\ s[8] = "-"
  /\ field(s, 1, 4) >= 0
  /\ field(s, 6, 7) \in 1..12
  /\ field(s, 9, 10) \in 1..31
isDateTime(s) ==
  /\ Len(s) = 20
  /\ isDateOnly(SubSeq(s, 1, 10))
  /\ s[11] = "T" /\ s[14] = ":" /\ s[17] = ":" /\ s[20] = "Z"
  /\ field(s, 12, 13) \in 0..23
  /\ field(s, 15, 16) \in 0..59
  /\ field(s, 18, 19) \in 0..59

\* function isISODate(s)
isISODate(s) ==
  /\ s.t = "string"
  /\ isDateOnly(s.chars) \/ isDateTime(s.chars)

\* function isSafeString(s, maxLen)
isSafeString(s, maxLen) ==
  /\ s.t = "string"
  /\ Len(s.chars) > 0
  /\ Len(s.chars) <= maxLen

\* function containsPIIish(s): an @, or a digit, seven or more characters
\* that are digits, white space, -, ( or ), and a digit.
containsPIIish(s) ==
  /\ s.t = "string"
  /\ \/ \E i \in DOMAIN s.chars : s.chars[i] = "@"
     \/ \E i, j \in DOMAIN s.chars :
          /\ j - i >= 8
          /\ s.chars[i] \in Range(DigitChars)
          /\ s.chars[j] \in Range(DigitChars)
          /\ \A k \in (i + 1)..(j - 1) :
               s.chars[k] \in Range(DigitChars) \cup WhiteSpace \cup {"-", "(", ")"}

ALLOWED_ENDPOINTS ==
  { Text(<<"/","q","u","o","t","e","s">>), Text(<<"/","f","x">>),
    Text(<<"/","s","e","a","r","c","h">>) }
ALLOWED_ERROR_TYPES ==
  { Text(S) : S \in { <<"h","t","t","p","E","r","r","o","r">>, <<"d","e","c","o","d","i","n","g">>, <<"n","e","t","w","o","r","k">>, <<"t","i","m","e","o","u","t">>, <<"b","a","d","U","R","L">>, <<"u","n","k","n","o","w","n">> } }

\* events.length > 300
MAX_EVENTS == 300

\* The error code of the first check one event fails, "" when it passes all.
eventError(e) ==
  IF ~e.isObject THEN "invalid_event"
  ELSE IF ~isISODate(e.timestamp) THEN "invalid_event_timestamp"
  ELSE IF e.endpoint \notin ALLOWED_ENDPOINTS THEN "invalid_event_endpoint"
  ELSE IF ~(\/ e.httpStatus.t \in {"null", "undefined"}
            \/ /\ e.httpStatus.t = "number"
               /\ "frac" \notin DOMAIN e.httpStatus
               /\ e.httpStatus.v >= 100
               /\ e.httpStatus.v <= 599)
    THEN "invalid_event_httpStatus"
  ELSE IF e.errorType \notin ALLOWED_ERROR_TYPES THEN "invalid_event_errorType"
  ELSE IF ~isUUID(e.requestId) THEN "invalid_event_requestId"
  ELSE IF containsPIIish(e.endpoint) \/ containsPIIish(e.errorType)
    THEN "pii_detected"
  ELSE ""

\* Mutant: the error reported is that of the last event that fails a check.
eventsError_last(events) ==
  LET bad == {i \in DOMAIN events : eventError(events[i]) # ""} IN
  IF bad = {} THEN ""
  ELSE eventError(events[CHOOSE i \in bad : \A j \in bad : j <= i])

\* for (const e of events): the error of the first event that fails a check.
eventsError(events) ==
  LET bad == {i \in DOMAIN events : eventError(events[i]) # ""} IN
  IF bad = {} THEN ""
  ELSE eventError(events[CHOOSE i \in bad : \A j \in bad : i <= j])

\* The error code of the first top-level check the body fails, "" when it
\* passes them all; events must be an array.
topLevelError(body) ==
  IF ~body.isObject THEN "invalid_json"
  ELSE IF ~isUUID(body.reportId) THEN "invalid_reportId"
  ELSE IF ~isISODate(body.createdAt) THEN "invalid_createdAt"
  ELSE IF ~isSafeString(body.backendEnvironment, 32)
            \/ containsPIIish(body.backendEnvironment)
    THEN "invalid_backendEnvironment"
  ELSE IF ~isSafeString(body.appVersion, 32) \/ containsPIIish(body.appVersion)
    THEN "invalid_appVersion"
  ELSE IF ~isSafeString(body.iosVersion, 32) \/ containsPIIish(body.iosVersion)
    THEN "invalid_iosVersion"
  ELSE IF ~isSafeString(body.deviceModel, 64) \/ containsPIIish(body.deviceModel)
    THEN "invalid_deviceModel"
  ELSE IF ~body.events.isArray THEN "invalid_events"
  ELSE ""

\* The answer of a failed report.
telemetryFailure(status, code) ==
  [status |-> status, body |-> [ok |-> FALSE, error |-> code]]

\* Mutant: the events are inspected before their number is.
TelemetryHandler_eventsFirst(body) ==
  LET top == topLevelError(body)
      inLoop == eventsError(body.events.items)
  IN
  IF top # "" THEN telemetryFailure(400, top)
  ELSE IF inLoop # "" THEN telemetryFailure(400, inLoop)
  ELSE IF Len(body.events.items) > MAX_EVENTS
    THEN telemetryFailure(413, "too_many_events")
  ELSE [status |-> 200,
        body |-> [ok |-> TRUE, reportId |-> body.reportId,
                  received |-> Len(body.events.items)]]

\* router.post('/', ...): the status and the body of the answer.
TelemetryHandler(body) ==
  LET top == topLevelError(body)
      inLoop == eventsError(body.events.items)
  IN
  IF top # "" THEN telemetryFailure(400, top)
  ELSE IF Len(body.events.items) > MAX_EVENTS
    THEN telemetryFailure(413, "too_many_events")
  ELSE IF inLoop # "" THEN telemetryFailure(400, inLoop)
  ELSE [status |-> 200,
        body |-> [ok |-> TRUE, reportId |-> body.reportId,
                  received |-> Len(body.events.items)]]

\* A client posts a report; the handler answers at once and keeps nothing.
TelemetryPost(body) ==
  /\ Len(req) < MaxReqs
  /\ LET answer == TelemetryHandler(body) IN
     req' = Append(req, Answered("telemetry", body, 0, <<>>, <<>>,
                                 answer.status, answer.body))
  /\ UNCHANGED <<env, clock, cache>>

\* req.body and its parts, as the JSON parser hands them over.
NotAnObject == [isObject |-> FALSE]
Items(items) == [isArray |-> TRUE, items |-> items]
NotAnArray == [isArray |-> FALSE, items |-> <<>>]
Report(reportId, createdAt, backendEnvironment, appVersion, iosVersion, deviceModel, events) ==
  [isObject |-> TRUE, reportId |-> reportId, createdAt |-> createdAt,
   backendEnvironment |-> backendEnvironment, appVersion |-> appVersion,
   iosVersion |-> iosVersion, deviceModel |-> deviceModel, events |-> events]
Event(timestamp, endpoint, httpStatus, errorType, requestId) ==
  [isObject |-> TRUE, timestamp |-> timestamp, endpoint |-> endpoint,
   httpStatus |-> httpStatus, errorType |-> errorType, requestId |-> requestId]
NotAnEvent == [isObject |-> FALSE]

GoodId == Text(<<"1","2","3","e","4","5","6","7","-","e","8","9","b","-","1","2","d","3","-","a","4","5","6","-","4","2","6","6","1","4","1","7","4","0","0","0">>)
UpperId == Text(<<"9","F","8","E","7","D","6","C","-","5","B","4","A","-","4","3","2","1","-","8","F","E","D","-","0","1","2","3","4","5","6","7","8","9","A","B">>)
GoodDate == Text(<<"2","0","2","4","-","0","1","-","1","5","T","1","0",":","0","0",":","0","0","Z">>)
GoodDay == Text(<<"2","0","2","4","-","0","1","-","1","5">>)
Production == Text(<<"p","r","o","d","u","c","t","i","o","n">>)
AppVersion == Text(<<"1",".","4",".","2">>)
IosVersion == Text(<<"1","7",".","4",".","1">>)
DeviceModel == Text(<<"i","P","h","o","n","e","1","5",",","2">>)
FxEndpoint == Text(<<"/","f","x">>)
NetworkError == Text(<<"n","e","t","w","o","r","k">>)

GoodEvent == Event(GoodDate, FxEndpoint, Num(502), NetworkError, UpperId)
BareEvent == Event(GoodDay, Text(<<"/","q","u","o","t","e","s">>), Undefined, Text(<<"t","i","m","e","o","u","t">>), GoodId)
GoodReport(events) ==
  Report(GoodId, GoodDate, Production, AppVersion, IosVersion, DeviceModel,
         events)

\* The events that fail one check, or two.
BadEvents ==
  { NotAnEvent,
    Event(Text(<<"y","e","s","t","e","r","d","a","y">>), FxEndpoint, Null, NetworkError, GoodId),
    Event(Text(<<"2","0","2","4","-","1","3","-","0","1">>), Text(<<"/","t","e","l","e","m","e","t","r","y">>), Null, NetworkError, GoodId),
    Event(GoodDate, Text(<<"/","t","e","l","e","m","e","t","r","y">>), Num(99), NetworkError, GoodId),
    Event(GoodDate, Text(<<"/","F","X">>), Null, NetworkError, GoodId),
    Event(GoodDate, FxEndpoint, Num(99), NetworkError, GoodId),
    Event(GoodDate, FxEndpoint, Num(600), Text(<<"c","r","a","s","h">>), GoodId),
    Event(GoodDate, FxEndpoint, Fraction(200, 500), NetworkError, GoodId),
    Event(GoodDate, FxEndpoint, Text(<<"2","0","0">>), NetworkError, GoodId),
    Event(GoodDate, FxEndpoint, Num(599), Text(<<"c","r","a","s","h">>), GoodId),
    Event(GoodDate, FxEndpoint, Num(100), Undefined, Text(<<"a","b","c">>)),
    Event(GoodDate, FxEndpoint, Null, NetworkError, Text(<<"1","2","3","e","4","5","6","7","-","e","8","9","b","-","1","2","d","3","-","a","4","5","6","-","4","2","6","6","1","4","1","7","4","0","0","g">>)),
    Event(GoodDate, FxEndpoint, Null, NetworkError, Text(<<"1","2","3","e","4","5","6","7","0","e","8","9","b","0","1","2","d","3","0","a","4","5","6","0","4","2","6","6","1","4","1","7","4","0","0","0">>)),
    Event(GoodDate, FxEndpoint, Null, NetworkError, Num(7)) }

\* The reports posted.
TelemetryReports ==
  { NotAnObject,
    GoodReport(Items(<<>>)),
    GoodReport(Items(<<GoodEvent, BareEvent>>)),
    GoodReport(Items([i \in 1..MAX_EVENTS |-> GoodEvent])),
    GoodReport(Items([i \in 1..(MAX_EVENTS + 1) |-> GoodEvent])),
    GoodReport(Items([i \in 1..(MAX_EVENTS + 1) |->
                        IF i = 1 THEN NotAnEvent ELSE GoodEvent])),
    GoodReport(Items([i \in 1..MAX_EVENTS |->
                        IF i = MAX_EVENTS THEN NotAnEvent ELSE GoodEvent])),
    GoodReport(NotAnArray),
    Report(GoodId, GoodDate, Production, AppVersion, IosVersion, DeviceModel,
           Items([i \in 1..(MAX_EVENTS + 1) |-> GoodEvent])),
    Report(Text(<<"r","e","p","o","r","t","-","1">>), Text(<<"t","o","d","a","y">>), Production, AppVersion, IosVersion,
           DeviceModel, Items(<<>>)),
    Report(Num(1), GoodDate, Production, AppVersion, IosVersion, DeviceModel,
           Items([i \in 1..(MAX_EVENTS + 1) |-> GoodEvent])),
    Report(GoodId, Text(<<"2","0","2","4","-","1","3","-","0","1">>), Production, AppVersion, IosVersion,
           DeviceModel, Items(<<>>)),
    Report(GoodId, GoodDay, Text(<<"x","x","x","x","x","x","x","x","x","x","x","x","x","x","x","x","x","x","x","x","x","x","x","x","x","x","x","x","x","x","x","x","x">>), Text(<<>>), IosVersion,
           DeviceModel, Items(<<>>)),
    Report(GoodId, GoodDay, Text(<<"x","x","x","x","x","x","x","x","x","x","x","x","x","x","x","x","x","x","x","x","x","x","x","x","x","x","x","x","x","x","x","x">>), Text(<<"d","e","v","@","e","x","a","m","p","l","e",".","c","o","m">>), IosVersion,
           DeviceModel, NotAnArray),
    Report(GoodId, GoodDay, Production, AppVersion, Num(17), DeviceModel,
           Items(<<>>)),
    Report(GoodId, GoodDay, Production, AppVersion, IosVersion,
           Text(<<"c","a","l","l"," ","5","5","5"," ","1","2","3"," ","4","5","6","7">>), Items(<<NotAnEvent>>)),
    Report(GoodId, GoodDay, Production, AppVersion, IosVersion,
           Text(<<"m","m","m","m","m","m","m","m","m","m","m","m","m","m","m","m","m","m","m","m","m","m","m","m","m","m","m","m","m","m","m","m","m","m","m","m","m","m","m","m","m","m","m","m","m","m","m","m","m","m","m","m","m","m","m","m","m","m","m","m","m","m","m","m","m">>), Items(<<>>)),
    Report(GoodId, GoodDay, Production, Text(<<"2","0","2","4","0","1","1","5",".","1">>), IosVersion,
           Text(<<"m","m","m","m","m","m","m","m","m","m","m","m","m","m","m","m","m","m","m","m","m","m","m","m","m","m","m","m","m","m","m","m","m","m","m","m","m","m","m","m","m","m","m","m","m","m","m","m","m","m","m","m","m","m","m","m","m","m","m","m","m","m","m","m">>), Items(<<BareEvent>>)) }
  \cup { GoodReport(Items(<<GoodEvent, e>>)) : e \in BadEvents }
  \cup { GoodReport(Items(<<e, NotAnEvent>>)) : e \in BadEvents }

\* The report carries a long list of events.
isBulk(body) == body.isObject /\ Len(body.events.items) > 2

\* The telemetry route under the reports posted to it.  The handler keeps
\* nothing from one report to the next, so a report with a long list of
\* events is posted on its own.  The route reads no provider key.
NextTelemetry ==
  \E body \in TelemetryReports :
    /\ isBulk(body) => req = <<>>
    /\ \A r \in DOMAIN req : ~isBulk(req[r].param)
    /\ TelemetryPost(body)

InitTelemetry == Init /\ env.FINNHUB_API_KEY /\ env.ALPHA_FX_KEY

SpecTelemetry == InitTelemetry /\ [][NextTelemetry]_vars

\* ------------------------------------------------------------------ claims
QuoteReqs == {r \in DOMAIN req : req[r].endpoint = "quotes"}

\* The request has been answered 200.
Done200(r) == req[r].pc = "done" /\ req[r].status = 200

\* [A-Z0-9.-]{1,20}
MatchesSymbolPattern(s) ==
  /\ Len(s) \in 1..20
  /\ \A i \in 1..Len(s) :
       s[i] \in Range(UpperChars) \cup Range(DigitChars) \cup {".", "-"}

\* The distinct non-empty items of a symbols parameter, trimmed and
\* upper-cased; the valid and the invalid ones.
ItemsOf(p) ==
  IF p.present
    THEN {toUpperCase(trim(it)) : it \in Range(split(p.value, Comma))} \ {<<>>}
    ELSE {}
ValidItems(p) == {s \in ItemsOf(p) : MatchesSymbolPattern(s)}
InvalidItems(p) == ItemsOf(p) \ ValidItems(p)

\* The request passes the validation of /quotes.
PassesValidation(p) ==
  /\ Cardinality(ItemsOf(p)) \in 1..MAX_SYMBOLS
  /\ ValidItems(p) # {}

AllNull(q) ==
  /\ q.previousClose = Null /\ q.current = Null /\ q.high = Null
  /\ q.low = Null /\ q.open = Null

\* C1: every /quotes request that passes validation with the provider key set
\* is answered 200 with a data map whose keys are exactly the distinct valid
\* symbols requested, whatever the hits, successes and failures.
C1_OneEntryPerValidSymbol ==
  \A r \in QuoteReqs :
    (req[r].pc = "done" /\ PassesValidation(req[r].param) /\ env.FINNHUB_API_KEY)
      => /\ req[r].status = 200
         /\ "data" \in DOMAIN req[r].body
         /\ DOMAIN req[r].body.data = ValidItems(req[r].param)

\* A batch answered from one cache hit, one failed call and one successful call.
C1_Witness ==
  \E r \in QuoteReqs :
    /\ Done200(r)
    /\ Cardinality(DOMAIN req[r].body.data) = 3
    /\ DOMAIN req[r].hits # {}
    /\ \E raw \in DOMAIN req[r].replies : quoteFailed(req[r].replies[raw])
    /\ \E raw \in DOMAIN req[r].replies : ~quoteFailed(req[r].replies[raw])

\* The five price fields of the entry a 200 answer gives: the field of the
\* payload when it is a number, null otherwise.
PricesOf(reply) ==
  LET q == IF reply.hasData THEN reply.data ELSE EmptyObject
      f(x) == IF x.t = "number" THEN x ELSE Null
  IN <<f(q.pc), f(q.c), f(q.h), f(q.l), f(q.o)>>
Prices(q) == <<q.previousClose, q.current, q.high, q.low, q.open>>

\* C2: in an answered batch, a symbol whose call threw or returned non-200 has
\* the all-null entry with provider finnhub; every other symbol has the values
\* of its own successful call or of its own fresh cache entry; the status is 200.
C2_FailureIsolated ==
  \A r \in QuoteReqs :
    (req[r].pc = "done" /\ DOMAIN req[r].replies # {}) =>
      /\ req[r].status = 200
      /\ \A raw \in DOMAIN req[r].replies :
           LET reply == req[r].replies[raw]
               entry == req[r].body.data[raw]
           IN IF reply.threw \/ reply.status # 200
                THEN AllNull(entry) /\ entry.provider = "finnhub"
                     /\ entry.symbol = raw
                ELSE Prices(entry) = PricesOf(reply)
      /\ \A raw \in DOMAIN req[r].hits :
           Prices(req[r].body.data[raw]) = Prices(req[r].hits[raw].value)

\* A batch of three symbols answered while one call failed: the symbol whose
\* call succeeded and the symbol served from the cache keep their values.
C2_Witness ==
  \E r \in QuoteReqs :
    /\ Done200(r)
    /\ Cardinality(DOMAIN req[r].body.data) = 3
    /\ \E bad, good \in DOMAIN req[r].replies :
         /\ quoteFailed(req[r].replies[bad])
         /\ ~quoteFailed(req[r].replies[good])
         /\ ~AllNull(req[r].body.data[good])
    /\ \E raw \in DOMAIN req[r].hits : ~AllNull(req[r].body.data[raw])

\* C3: every entry data[k] of a /quotes response has symbol = k.
C3_SymbolIsClientSymbol ==
  \A r \in QuoteReqs :
    Done200(r) => \A k \in DOMAIN req[r].body.data : req[r].body.data[k].symbol = k

\* A hit on an entry that an earlier request cached under another alias.
C3_Witness ==
  \E r \in QuoteReqs :
    /\ Done200(r)
    /\ \E k \in DOMAIN req[r].hits :
         /\ req[r].hits[k].value.symbol # k
         /\ req[r].body.data[k].symbol = k

\* The valid symbols a /quotes request asked for.
SymbolsOf(q) == {q.pairs[i].raw : i \in DOMAIN q.pairs}

\* Every symbol of the answered request came from a successful provider call.
AllFetched(q) ==
  /\ q.pc = "done" /\ q.status = 200
  /\ DOMAIN q.replies = SymbolsOf(q)
  /\ \A raw \in DOMAIN q.replies : ~quoteFailed(q.replies[raw])

\* The cache holds, for every symbol of the request, the entry that request
\* stored for it.
StillStored(q) ==
  \A raw \in SymbolsOf(q) :
    LET key == quoteCacheKey(mapToFinnhubSymbol(raw)) IN
    /\ key \in DOMAIN cache
    /\ cache[key] = [timestamp |-> q.now, value |-> q.body.data[raw]]

\* The request the step appends, when the step is the arrival of a request.
Arrives == Len(req') = Len(req) + 1
Arrival == req'[Len(req')]

\* C4 as stated: of two answered requests for the same symbol set, the second
\* starting less than TTL after the first, the second issued no provider call
\* and its data equal the first's.
C4_SameSetTwiceWithinTTL ==
  \A r1, r2 \in QuoteReqs :
    (/\ r1 < r2
     /\ Done200(r1) /\ Done200(r2)
     /\ SymbolsOf(req[r1]) = SymbolsOf(req[r2])
     /\ req[r2].now - req[r1].now < CACHE_TTL_MS)
      => /\ req[r2].issued = <<>>
         /\ req[r2].body.data = req[r1].body.data

\* C4, amended: when a request that fetched every one of its symbols
\* successfully has been answered, the cache still holds the entries it
\* stored, and a request for the same symbol set starts less than TTL after
\* it started, that second request issues no provider call and is answered at
\* once with data identical to the first's.
C4_RepeatServedFromCache ==
  [][\A r1 \in QuoteReqs :
       (/\ Arrives
        /\ Arrival.endpoint = "quotes"
        /\ AllFetched(req[r1])
        /\ StillStored(req[r1])
        /\ SymbolsOf(Arrival) = SymbolsOf(req[r1])
        /\ Arrival.now - req[r1].now < CACHE_TTL_MS)
         => /\ Arrival.issued = <<>>
            /\ Arrival.pc = "done" /\ Arrival.status = 200
            /\ Arrival.body.data = req[r1].body.data]_vars

\* Two answered requests for the same symbols, the second TTL - 1 ms after the
\* first, the first fetched with real prices, the second without any call.
C4_Witness ==
  \E r1, r2 \in QuoteReqs :
    /\ r1 < r2
    /\ AllFetched(req[r1])
    /\ \E raw \in SymbolsOf(req[r1]) : ~AllNull(req[r1].body.data[raw])
    /\ Done200(r2)
    /\ SymbolsOf(req[r2]) = SymbolsOf(req[r1])
    /\ req[r2].now - req[r1].now = CACHE_TTL_MS - 1
    /\ req[r2].issued = <<>>
    /\ req[r2].body.data = req[r1].body.data

\* The base symbols of the crypto table, and the alias pairs X, X-USD.
BTC == <<"B","T","C">>
TableBases == {x \in DOMAIN cryptoMap : ~endsWith(x, DashUSD)}
AliasPairs ==
  {<<x, x \o DashUSD>> : x \in TableBases}
    \cup {<<x \o DashUSD, x>> : x \in TableBases}

\* Every alias pair X, X-USD of the table has one cache key, and BTC's is
\* quote:BINANCE:BTCUSDT.
AliasesShareKey ==
  /\ quoteCacheKey(mapToFinnhubSymbol(BTC))
       = <<"q","u","o","t","e",":">> \o BinancePrefix \o BTC \o USDTSuffix
  /\ \A x \in TableBases :
       /\ x \o DashUSD \in DOMAIN cryptoMap
       /\ quoteCacheKey(mapToFinnhubSymbol(x))
            = quoteCacheKey(mapToFinnhubSymbol(x \o DashUSD))

\* C5 as stated: the aliases share their key and any two answered requests,
\* one for X and one for X-USD, made within TTL of each other carry the same
\* five values under their own symbol fields.
C5_AliasesSameValuesWithinTTL ==
  /\ AliasesShareKey
  /\ \A r1, r2 \in QuoteReqs :
       (/\ r1 < r2
        /\ Done200(r1) /\ Done200(r2)
        /\ \E al \in AliasPairs :
             SymbolsOf(req[r1]) = {al[1]} /\ SymbolsOf(req[r2]) = {al[2]}
        /\ req[r2].now - req[r1].now < CACHE_TTL_MS)
         => \A x \in SymbolsOf(req[r1]), y \in SymbolsOf(req[r2]) :
              /\ Prices(req[r1].body.data[x]) = Prices(req[r2].body.data[y])
              /\ req[r1].body.data[x].symbol = x
              /\ req[r2].body.data[y].symbol = y

\* C5, amended: the aliases X, X-USD of the table share their cache key; and
\* when a request for one alias has been answered from a successful provider
\* call, the cache still holds the entry it stored, and a request for the
\* other alias starts less than TTL after it started, the second is answered
\* without a provider call, with the same five values and its own symbol.
C5_AliasServedFromSharedEntry ==
  [][/\ AliasesShareKey
     /\ \A r1 \in QuoteReqs : \A al \in AliasPairs :
          (/\ Arrives
           /\ Arrival.endpoint = "quotes"
           /\ AllFetched(req[r1])
           /\ StillStored(req[r1])
           /\ SymbolsOf(req[r1]) = {al[1]}
           /\ SymbolsOf(Arrival) = {al[2]}
           /\ Arrival.now - req[r1].now < CACHE_TTL_MS)
            => /\ Arrival.issued = <<>>
               /\ Arrival.pc = "done" /\ Arrival.status = 200
               /\ Prices(Arrival.body.data[al[2]])
                    = Prices(req[r1].body.data[al[1]])
               /\ Arrival.body.data[al[2]].symbol = al[2]
               /\ req[r1].body.data[al[1]].symbol = al[1]]_vars

\* BTC fetched with real prices, then BTC-USD answered from the same entry
\* TTL - 1 ms later.
C5_Witness ==
  \E r1, r2 \in QuoteReqs :
    /\ r1 < r2
    /\ AllFetched(req[r1])
    /\ SymbolsOf(req[r1]) = {BTC}
    /\ ~AllNull(req[r1].body.data[BTC])
    /\ Done200(r2)
    /\ SymbolsOf(req[r2]) = {BTC \o DashUSD}
    /\ req[r2].now - req[r1].now = CACHE_TTL_MS - 1
    /\ req[r2].issued = <<>>
    /\ req[r2].reads = <<quoteCacheKey(mapToFinnhubSymbol(BTC))>>
    /\ Prices(req[r2].body.data[BTC \o DashUSD]) = Prices(req[r1].body.data[BTC])
    /\ req[r2].body.data[BTC \o DashUSD].symbol = BTC \o DashUSD

\* The cache keys a request issued a provider call for.
CalledKeys(q) ==
  IF q.endpoint = "quotes"
    THEN {quoteCacheKey(q.issued[i]) : i \in DOMAIN q.issued}
    ELSE Range(q.issued)

\* The request, arriving at q.now, was served the entry stored under key k.
Served(q, k) ==
  IF q.endpoint = "quotes"
    THEN \A i \in DOMAIN q.pairs :
           quoteCacheKey(q.pairs[i].finnhub) = k =>
             /\ q.pairs[i].raw \in DOMAIN q.result
             /\ Prices(q.result[q.pairs[i].raw]) = Prices(cache[k].value)
    ELSE q.pc = "done" /\ q.status = 200 /\ q.body = cache[k].value

\* What the answered request r shows of the key its call fetched, when the
\* call succeeded: the prices, the rate or the results of the reply.
ShowsReply(q, raw, reply) ==
  CASE q.endpoint = "quotes" -> Prices(q.result[raw]) = PricesOf(reply)
    [] q.endpoint = "fx" ->
         /\ q.status = 200
         /\ q.body.rate = parseFloat(reply.payload.rate.value)
    [] q.endpoint = "search" ->
         /\ q.status = 200
         /\ q.body.results =
              IF reply.hasData /\ reply.isArray
                THEN searchResults(reply.bestMatches) ELSE <<>>

\* The reply is a success by its endpoint's checks.
Succeeded(endpoint, reply) ==
  CASE endpoint = "quotes" -> ~quoteFailed(reply)
    [] endpoint = "fx" -> ~fxFailed(reply)
    [] endpoint = "search" -> ~searchFailed(reply)

\* The key a settled call of request q was for.
KeyOf(q, raw) ==
  IF q.endpoint = "quotes" THEN quoteCacheKey(mapToFinnhubSymbol(raw)) ELSE raw

\* C6: a request reaching the cache is served the entry of a key exactly when
\* the entry exists and now - timestamp < TTL, and otherwise issues a provider
\* call for it; a call that succeeds overwrites the entry, stamped with the
\* start time of its request, and the request shows the fetched value.  For
\* the quote, fx and search keys alike.
C6_ServedOnlyWhileFresh ==
  [][/\ Arrives =>
          \A k \in Range(Arrival.reads) :
            IF k \in DOMAIN cache /\ Arrival.now - cache[k].timestamp < CACHE_TTL_MS
              THEN k \notin CalledKeys(Arrival) /\ Served(Arrival, k)
              ELSE k \in CalledKeys(Arrival) /\ Arrival.pc = "await"
     /\ \A r \in DOMAIN req : \A raw \in DOMAIN req'[r].replies :
          (/\ ~Arrives
           /\ raw \notin DOMAIN req[r].replies
           /\ Succeeded(req[r].endpoint, req'[r].replies[raw]))
            => /\ KeyOf(req[r], raw) \in DOMAIN cache'
               /\ cache'[KeyOf(req[r], raw)].timestamp = req[r].now
               /\ IF req[r].endpoint = "quotes"
                    THEN cache'[KeyOf(req[r], raw)].value = req'[r].result[raw]
                    ELSE cache'[KeyOf(req[r], raw)].value = req'[r].body
               /\ ShowsReply(req'[r], raw, req'[r].replies[raw])]_vars

\* A key fetched by one request, found TTL old or older by a later request of
\* the endpoint, fetched again and stored with another value.
StaleRefetched(endpoint) ==
  \E r1, r2 \in DOMAIN req : \E k \in DOMAIN cache :
    /\ r1 < r2
    /\ req[r1].endpoint = endpoint /\ req[r2].endpoint = endpoint
    /\ Done200(r1) /\ Done200(r2)
    /\ k \in Range(req[r1].writes) /\ k \in Range(req[r2].writes)
    /\ req[r2].now - req[r1].now >= CACHE_TTL_MS
    /\ cache[k].timestamp = req[r2].now
    /\ req[r1].body # req[r2].body
    /\ IF endpoint = "quotes"
         THEN \E raw \in DOMAIN req[r2].body.data :
                cache[k].value = req[r2].body.data[raw]
         ELSE cache[k].value = req[r2].body

C6_Witness == StaleRefetched("fx")
C6_WitnessQuotes == StaleRefetched("quotes")
C6_WitnessSearch == StaleRefetched("search")

FxReqs == {r \in DOMAIN req : req[r].endpoint = "fx"}

\* The request names two currencies that are equal once upper-cased and
\* trimmed.
SameCurrency(p) ==
  /\ p.from.present /\ p.to.present
  /\ toUpperCase(trim(p.from.value)) # <<>>
  /\ toUpperCase(trim(p.from.value)) = toUpperCase(trim(p.to.value))

\* C7: a /fx request whose from and to are equal after upper-casing and
\* trimming is answered at once, 200 with rate 1.0 (1000 thousandths), without
\* a provider call, a cache read or a cache write, whatever the cache holds
\* and whether or not the provider key is set.
C7_IdentityRate ==
  \A r \in FxReqs :
    SameCurrency(req[r].param) =>
      /\ req[r].pc = "done"
      /\ req[r].status = 200
      /\ req[r].body.rate = Num(1000)
      /\ req[r].body.fromCurrency = req[r].body.toCurrency
      /\ req[r].issued = <<>>
      /\ req[r].reads = <<>>
      /\ DOMAIN req[r].hits = {}
      /\ DOMAIN req[r].writes = {}
      /\ DOMAIN req[r].replies = {}

\* An identity request written in two cases, answered after another request
\* has filled the cache.
C7_Witness ==
  \E r1, r2 \in FxReqs :
    /\ r1 < r2
    /\ DOMAIN req[r1].writes # {}
    /\ cache # <<>>
    /\ SameCurrency(req[r2].param)
    /\ req[r2].param.from.value # req[r2].param.to.value
    /\ req[r2].status = 200
    /\ req[r2].body.rate = Num(1000)

\* The provider call failed in the sense of the contract: it threw, returned
\* a status other than 200, or returned a body that is missing or has a price
\* field that is not a number.
CallFailed(reply) ==
  \/ reply.threw
  \/ reply.status # 200
  \/ ~reply.hasData
  \/ \E f \in {"pc", "c", "h", "l", "o"} : reply.data[f].t # "number"

\* C8 as stated: a symbol whose provider call failed was called once by its
\* request, has the all-null entry, and left nothing in the cache; no request
\* is ever served an all-null entry from the cache.
C8_FailedCallNotCached ==
  \A r \in QuoteReqs :
    /\ \A raw \in DOMAIN req[r].replies :
         CallFailed(req[r].replies[raw]) =>
           /\ Cardinality({i \in DOMAIN req[r].pairs : req[r].pairs[i].raw = raw}) = 1
           /\ AllNull(req[r].result[raw])
           /\ raw \notin DOMAIN req[r].writes
    /\ \A raw \in DOMAIN req[r].hits : ~AllNull(req[r].hits[raw].value)

\* The request is one that the validation of /quotes turns down.
Unacceptable(p) ==
  \/ ~p.present
  \/ ItemsOf(p) = {}
  \/ Cardinality(ItemsOf(p)) > MAX_SYMBOLS
  \/ ValidItems(p) = {}

\* C9: a /quotes request whose symbols parameter is missing, has no non-empty
\* item, names more than 100 distinct symbols or names no valid symbol is
\* answered 400 at once, with no data, no provider call, no cache read and no
\* cache write.
C9_Rejected400 ==
  \A r \in QuoteReqs :
    Unacceptable(req[r].param) =>
      /\ req[r].pc = "done"
      /\ req[r].status = 400
      /\ "data" \notin DOMAIN req[r].body
      /\ req[r].issued = <<>>
      /\ req[r].reads = <<>>
      /\ DOMAIN req[r].hits = {}
      /\ DOMAIN req[r].writes = {}
      /\ DOMAIN req[r].replies = {}

\* A list of 101 distinct valid symbols rejected, after a list of exactly 100
\* distinct symbols was accepted.
C9_Witness ==
  \E r1, r2 \in QuoteReqs :
    /\ Cardinality(ItemsOf(req[r1].param)) = MAX_SYMBOLS
    /\ req[r1].status # 400
    /\ Cardinality(ValidItems(req[r2].param)) = MAX_SYMBOLS + 1
    /\ req[r2].status = 400
    /\ req[r2].issued = <<>>

\* The request names a valid and an invalid symbol.
Mixed(p) == ValidItems(p) # {} /\ InvalidItems(p) # {}

\* What the claim says of the answer to a request: the keys of data are the
\* valid symbols, invalidSymbols lists the invalid ones and is absent when
\* there is none.
Partitioned(q) ==
  /\ q.status = 200
  /\ "data" \in DOMAIN q.body
  /\ DOMAIN q.body.data = ValidItems(q.param)
  /\ ("invalidSymbols" \in DOMAIN q.body) <=> (InvalidItems(q.param) # {})
  /\ "invalidSymbols" \in DOMAIN q.body =>
       /\ Range(q.body.invalidSymbols) = InvalidItems(q.param)
       /\ Len(q.body.invalidSymbols) = Cardinality(InvalidItems(q.param))
       /\ Range(q.body.invalidSymbols) \cap DOMAIN q.body.data = {}
       /\ Range(q.body.invalidSymbols) \cup DOMAIN q.body.data = ItemsOf(q.param)

\* Only the valid symbols were mapped, looked up in the cache or sent to the
\* provider.
OnlyValidUsed(q) ==
  /\ SymbolsOf(q) = ValidItems(q.param)
  /\ Len(q.pairs) = Cardinality(ValidItems(q.param))
  /\ Len(q.reads) = Len(q.pairs)
  /\ \A i \in DOMAIN q.reads :
       q.reads[i] = quoteCacheKey(mapToFinnhubSymbol(q.pairs[i].raw))
  /\ Len(q.issued) + Cardinality(DOMAIN q.hits) = Len(q.pairs)
  /\ Range(q.issued) \subseteq {mapToFinnhubSymbol(s) : s \in ValidItems(q.param)}
  /\ DOMAIN q.hits \subseteq ValidItems(q.param)

\* C10 as stated: every request naming a valid and an invalid symbol is
\* answered 200 with data keyed by the valid symbols and invalidSymbols
\* listing the invalid ones, and only its valid symbols are used.
C10_MixedRequestAnswered200 ==
  \A r \in QuoteReqs :
    (Mixed(req[r].param) /\ req[r].pc = "done")
      => Partitioned(req[r]) /\ OnlyValidUsed(req[r])

\* C10, amended: a request naming a valid and an invalid symbol, at most 100
\* distinct symbols in all, received with the provider key set, uses only its
\* valid symbols and is answered 200 with data keyed by exactly the valid
\* symbols and invalidSymbols listing exactly the invalid ones; every 200
\* answer carries invalidSymbols exactly when a requested symbol is invalid.
C10_ValidInvalidPartition ==
  \A r \in QuoteReqs :
    /\ (/\ Mixed(req[r].param)
        /\ Cardinality(ItemsOf(req[r].param)) <= MAX_SYMBOLS
        /\ env.FINNHUB_API_KEY)
         => /\ OnlyValidUsed(req[r])
            /\ req[r].pc = "done" => Partitioned(req[r])
    /\ Done200(r) => Partitioned(req[r])

\* A request for two spellings of one valid symbol and 99 invalid ones,
\* answered 200 after its single provider call.
C10_Witness ==
  \E r \in QuoteReqs :
    /\ Done200(r)
    /\ Cardinality(ItemsOf(req[r].param)) = MAX_SYMBOLS
    /\ Cardinality(DOMAIN req[r].body.data) = 1
    /\ Len(req[r].body.invalidSymbols) = MAX_SYMBOLS - 1
    /\ Len(req[r].issued) = 1

\* The request names two currencies, one of which the provider does not
\* quote.
NamesUnsupported(p, supported) ==
  /\ p.from.present /\ p.to.present
  /\ trim(p.from.value) # <<>> /\ trim(p.to.value) # <<>>
  /\ \/ toUpperCase(trim(p.from.value)) \notin supported
     \/ toUpperCase(trim(p.to.value)) \notin supported

\* C11 as stated, for the direct-rate design: a /fx request naming a currency
\* code the provider does not quote, received with the provider key set and
\* answered after the provider (if called) replied 200, is answered 400.
C11_UnsupportedCodeIs400 ==
  \A r \in FxReqs :
    (/\ req[r].pc = "done"
     /\ NamesUnsupported(req[r].param, AlphaSupported)
     /\ env.ALPHA_FX_KEY
     /\ \A k \in DOMAIN req[r].replies :
          ~req[r].replies[k].threw /\ req[r].replies[k].status = 200)
      => req[r].status = 400

\* C11 as stated, for the cross-rate design.
C11_CrossUnsupportedCodeIs400 ==
  \A r \in FxReqs :
    (req[r].pc = "done" /\ NamesUnsupported(req[r].param, {EUR, GBP, BASE})
      /\ env.FINNHUB_API_KEY
      /\ \A k \in DOMAIN req[r].replies : ~quoteFailed(req[r].replies[k]))
      => req[r].status = 400

\* The provider answered 200 and the exchange-rate field of its answer is
\* missing, empty, or does not parse to a finite number.
RateMissingOrNotFinite(reply) ==
  /\ ~reply.threw /\ reply.status = 200
  /\ \/ ~reply.hasData
     \/ ~reply.payload.present
     \/ ~reply.payload.rate.present
     \/ reply.payload.rate.value = <<>>
     \/ parseFloat(reply.payload.rate.value).t # "number"

\* The fx entries of the cache.
FxKeys(c) ==
  {k \in DOMAIN c : Len(k) >= Len(FxPrefix) /\ SubSeq(k, 1, Len(FxPrefix)) = FxPrefix}

\* C12: the step that processes a provider answer whose exchange-rate field is
\* missing or not a finite number answers 500 'Failed to fetch FX rate' and
\* leaves the cache as it was; after every step, every 200 /fx response and
\* every cached fx entry carries a finite rate.
C12_FiniteRateOr500 ==
  [][/\ \A r \in FxReqs : \A k \in DOMAIN req'[r].replies :
          (k \notin DOMAIN req[r].replies
             /\ RateMissingOrNotFinite(req'[r].replies[k]))
            => /\ req'[r].pc = "done"
               /\ req'[r].status = 500
               /\ req'[r].body = [error |-> "Failed to fetch FX rate"]
               /\ cache' = cache
     /\ \A r \in DOMAIN req' :
          (req'[r].endpoint = "fx" /\ req'[r].pc = "done" /\ req'[r].status = 200)
            => req'[r].body.rate.t = "number"
     /\ \A k \in FxKeys(cache') : cache'[k].value.rate.t = "number"]_vars

\* An answer with the rate 'Infinity' turned into a 500 that wrote nothing,
\* while the cache holds the finite rate another request fetched.
C12_Witness ==
  \E r1, r2 \in FxReqs :
    /\ req[r1].status = 500
    /\ DOMAIN req[r1].writes = {}
    /\ \E k \in DOMAIN req[r1].replies :
         /\ req[r1].replies[k].payload.rate = Str(InfinityChars)
         /\ k \in DOMAIN cache
         /\ cache[k].value = req[r2].body
    /\ req[r2].status = 200
    /\ DOMAIN req[r2].replies # {}
    /\ req[r2].body.rate.t = "number"

SearchReqs == {r \in DOMAIN req : req[r].endpoint = "search"}

\* The provider search call failed in the sense of the contract: it threw,
\* returned a status other than 200, or returned a body that is missing, has
\* no bestMatches array, or lists an item that is not an object.
SearchCallFailed(reply) ==
  \/ reply.threw
  \/ reply.status # 200
  \/ ~reply.hasData
  \/ ~reply.isArray
  \/ \E i \in DOMAIN reply.bestMatches : ~reply.bestMatches[i].isObject

\* C13 as stated: a /search request whose provider call failed is answered
\* 502 and has written nothing to the cache.
C13_SearchFailureIs502 ==
  \A r \in SearchReqs : \A k \in DOMAIN req[r].replies :
    SearchCallFailed(req[r].replies[k]) =>
      /\ req[r].pc = "done"
      /\ req[r].status = 502
      /\ DOMAIN req[r].writes = {}

\* The query of a /search request with the white space at its ends removed;
\* the empty string when the parameter is missing.
TrimmedQuery(p) ==
  IF ~p.present THEN <<>>
  ELSE LET inner == {i \in DOMAIN p.value : p.value[i] \notin WhiteSpace} IN
       IF inner = {} THEN <<>>
       ELSE SubSeq(p.value,
                   CHOOSE i \in inner : \A j \in inner : i <= j,
                   CHOOSE i \in inner : \A j \in inner : j <= i)

\* C14: a /search request whose query is missing, blank, or longer than 20
\* characters once trimmed is answered 400 at once, with no provider call and
\* no cache read or write; a query of trimmed length 1 to 20 is never
\* answered 400.
C14_QueryLengthChecked ==
  \A r \in SearchReqs :
    LET n == Len(TrimmedQuery(req[r].param)) IN
    /\ (n = 0 \/ n > 20) =>
         /\ req[r].pc = "done"
         /\ req[r].status = 400
         /\ req[r].issued = <<>>
         /\ req[r].reads = <<>>
         /\ DOMAIN req[r].hits = {}
         /\ DOMAIN req[r].writes = {}
         /\ DOMAIN req[r].replies = {}
    /\ n \in 1..20 => req[r].status # 400

\* A query of 21 characters rejected, and a query of 20 characters between
\* two spaces answered 200 after its provider call.
C14_Witness ==
  \E r1, r2 \in SearchReqs :
    /\ Len(TrimmedQuery(req[r1].param)) = 21
    /\ req[r1].status = 400
    /\ Len(req[r2].param.value) = 22
    /\ Len(TrimmedQuery(req[r2].param)) = 20
    /\ req[r2].status = 200
    /\ DOMAIN req[r2].replies # {}

\* The request was answered without a provider call and without a cache read
\* or write.
NoCacheNoCall(q) ==
  /\ q.pc = "done"
  /\ q.issued = <<>>
  /\ q.reads = <<>>
  /\ DOMAIN q.hits = {}
  /\ DOMAIN q.writes = {}
  /\ DOMAIN q.replies = {}

\* The body of the 500 answer that reports a missing key.
KeyErrorBody(q) ==
  /\ "error" \in DOMAIN q.body
  /\ q.body.error \in
       {"FINNHUB_API_KEY is not configured on the server",
        "ALPHA_FX_KEY (or ALPHA_VANTAGE_KEY) is not configured on the server"}

\* C15: with the quote key unset every valid /quotes request, and with the
\* FX/search key unset every /fx request for two different currencies and
\* every /search request with a query of 1 to 20 characters, is answered 500
\* without a provider call or a cache access; a request to an endpoint whose
\* own key is set, and a /fx request for one currency twice, is never
\* answered with the missing-key error.
C15_MissingKeyIs500 ==
  \A r \in DOMAIN req :
    LET q == req[r]
        dependsOnMissing ==
          CASE q.endpoint = "quotes" ->
                 ~env.FINNHUB_API_KEY /\ PassesValidation(q.param)
            [] q.endpoint = "fx" ->
                 /\ ~env.ALPHA_FX_KEY
                 /\ q.param.from.present /\ q.param.to.present
                 /\ toUpperCase(trim(q.param.from.value)) # <<>>
                 /\ toUpperCase(trim(q.param.to.value)) # <<>>
                 /\ toUpperCase(trim(q.param.from.value))
                      # toUpperCase(trim(q.param.to.value))
            [] q.endpoint = "search" ->
                 ~env.ALPHA_FX_KEY /\ Len(TrimmedQuery(q.param)) \in 1..20
    IN IF dependsOnMissing
         THEN q.status = 500 /\ KeyErrorBody(q) /\ NoCacheNoCall(q)
         ELSE ~(q.status = 500 /\ KeyErrorBody(q))

\* With the FX/search key unset and the quote key set, a /search request
\* answered 500 beside a /quotes request answered 200 by the provider.
C15_Witness ==
  /\ ~env.ALPHA_FX_KEY /\ env.FINNHUB_API_KEY
  /\ \E r1, r2 \in DOMAIN req :
       /\ req[r1].endpoint = "search"
       /\ req[r1].status = 500 /\ NoCacheNoCall(req[r1])
       /\ req[r2].endpoint = "quotes"
       /\ req[r2].status = 200
       /\ DOMAIN req[r2].writes # {}

TelemetryReqs == {r \in DOMAIN req : req[r].endpoint = "telemetry"}

\* Every top-level field of the report other than events passes its
\* validator.
FieldsValid(b) ==
  /\ b.isObject
  /\ isUUID(b.reportId)
  /\ isISODate(b.createdAt)
  /\ isSafeString(b.backendEnvironment, 32) /\ ~containsPIIish(b.backendEnvironment)
  /\ isSafeString(b.appVersion, 32) /\ ~containsPIIish(b.appVersion)
  /\ isSafeString(b.iosVersion, 32) /\ ~containsPIIish(b.iosVersion)
  /\ isSafeString(b.deviceModel, 64) /\ ~containsPIIish(b.deviceModel)

\* C16: a report whose top-level fields are valid and whose events array has
\* more than 300 items is answered 413 too_many_events, whatever its events
\* are; a report with at most 300 events, or without an events array, is
\* never answered 413.
C16_TooManyEventsIs413 ==
  \A r \in TelemetryReqs :
    LET b == req[r].param IN
    IF FieldsValid(b) /\ b.events.isArray /\ Len(b.events.items) > 300
      THEN /\ req[r].status = 413
           /\ req[r].body = [ok |-> FALSE, error |-> "too_many_events"]
      ELSE (~b.isObject \/ Len(b.events.items) <= 300) => req[r].status # 413

\* A report of 301 events whose first event is not an object, answered 413.
C16_Witness ==
  \E r \in TelemetryReqs :
    /\ req[r].param.isObject
    /\ Len(req[r].param.events.items) = 301
    /\ ~req[r].param.events.items[1].isObject
    /\ req[r].status = 413

\* The checks of a report in their order, by the error code each gives.
TopOrder ==
  << "invalid_json", "invalid_reportId", "invalid_createdAt",
     "invalid_backendEnvironment", "invalid_appVersion", "invalid_iosVersion",
     "invalid_deviceModel", "invalid_events", "too_many_events" >>
EventOrder ==
  << "invalid_event", "invalid_event_timestamp", "invalid_event_endpoint",
     "invalid_event_httpStatus", "invalid_event_errorType",
     "invalid_event_requestId" >>

\* The report passes the top-level check that gives the code.
PassesTop(b, code) ==
  CASE code = "invalid_json" -> b.isObject
    [] code = "invalid_reportId" -> isUUID(b.reportId)
    [] code = "invalid_createdAt" -> isISODate(b.createdAt)
    [] code = "invalid_backendEnvironment" ->
         isSafeString(b.backendEnvironment, 32) /\ ~containsPIIish(b.backendEnvironment)
    [] code = "invalid_appVersion" ->
         isSafeString(b.appVersion, 32) /\ ~containsPIIish(b.appVersion)
    [] code = "invalid_iosVersion" ->
         isSafeString(b.iosVersion, 32) /\ ~containsPIIish(b.iosVersion)
    [] code = "invalid_deviceModel" ->
         isSafeString(b.deviceModel, 64) /\ ~containsPIIish(b.deviceModel)
    [] code = "invalid_events" -> b.events.isArray
    [] code = "too_many_events" -> Len(b.events.items) <= 300

\* The event passes the check that gives the code.
PassesEvent(e, code) ==
  CASE code = "invalid_event" -> e.isObject
    [] code = "invalid_event_timestamp" -> isISODate(e.timestamp)
    [] code = "invalid_event_endpoint" ->
         /\ e.endpoint.t = "string"
         /\ e.endpoint.chars \in {<<"/","q","u","o","t","e","s">>, <<"/","f","x">>,
                                  <<"/","s","e","a","r","c","h">>}
    [] code = "invalid_event_httpStatus" ->
         \/ e.httpStatus.t \in {"null", "undefined"}
         \/ /\ e.httpStatus.t = "number" /\ "frac" \notin DOMAIN e.httpStatus
            /\ e.httpStatus.v \in 100..599
    [] code = "invalid_event_errorType" -> e.errorType \in ALLOWED_ERROR_TYPES
    [] code = "invalid_event_requestId" -> isUUID(e.requestId)

\* The first check of the order that the subject fails, 0 when it fails
\* none; a check is made only when those before it have passed.
RECURSIVE FirstFailing(_, _, _, _)
FirstFailing(Passes(_, _), x, order, i) ==
  IF i > Len(order) THEN 0
  ELSE IF ~Passes(x, order[i]) THEN i
  ELSE FirstFailing(Passes, x, order, i + 1)

\* The error code the contract gives a report, "" for a report it accepts.
ExpectedEventError(events) ==
  LET failing == {i \in DOMAIN events :
                    FirstFailing(PassesEvent, events[i], EventOrder, 1) # 0}
      first == CHOOSE i \in failing : \A j \in failing : i <= j
  IN IF failing = {} THEN ""
     ELSE EventOrder[FirstFailing(PassesEvent, events[first], EventOrder, 1)]
ExpectedError(b) ==
  LET k == FirstFailing(PassesTop, b, TopOrder, 1) IN
  IF k # 0 THEN TopOrder[k] ELSE ExpectedEventError(b.events.items)

\* C17: a report is answered 200 {ok: true, reportId, received} with received
\* the number of its events exactly when it fails no check; otherwise it is
\* answered 413 for too_many_events and 400 for any other code, with the code
\* of the first check it fails in the order of the checks.
C17_FirstFailingCheck ==
  \A r \in TelemetryReqs :
    LET b == req[r].param
        expected == ExpectedError(b)
    IN IF expected = ""
         THEN /\ req[r].status = 200
              /\ req[r].body = [ok |-> TRUE, reportId |-> b.reportId,
                                received |-> Len(b.events.items)]
         ELSE /\ req[r].status = IF expected = "too_many_events" THEN 413 ELSE 400
              /\ req[r].body = [ok |-> FALSE, error |-> expected]

\* A report of two events accepted, beside a report rejected for the endpoint
\* of an event whose httpStatus is invalid too, and whose next event is not
\* an object.
C17_Witness ==
  \E r1, r2 \in TelemetryReqs :
    /\ req[r1].status = 200 /\ req[r1].body.received = 2
    /\ req[r2].status = 400
    /\ req[r2].body.error = "invalid_event_endpoint"
    /\ Len(req[r2].param.events.items) = 2
    /\ ~req[r2].param.events.items[2].isObject
    /\ req[r2].param.events.items[1].httpStatus = Num(99)

\* The requests to /quotes, /fx and /search answered outside 2xx.
ErrorReqs ==
  { r \in DOMAIN req :
      /\ req[r].endpoint \in {"quotes", "fx", "search"}
      /\ req[r].pc = "done"
      /\ req[r].status \notin 200..299 }

FanOuts(q) == { r \in DOMAIN q : q[r].endpoint = "quotes" /\ q[r].pairs # <<>> }

\* The provider symbols of the calls of a request that have settled.
SettledCalls(q) == { mapToFinnhubSymbol(raw) : raw \in DOMAIN q.replies }

\* C19: when a /quotes request arrives, the cache has been read for every
\* one of its pairs and the call of every miss has been issued while no
\* answer of a call has been processed; later steps add no lookup and no
\* call; and the response is sent exactly when every issued call has
\* settled, by success or by failure, never while a call is outstanding.
C19_IssueAllThenJoin ==
  [][\A r \in FanOuts(req') :
       LET q == req'[r] IN
       /\ r \notin DOMAIN req =>
            /\ Len(q.reads) = Len(q.pairs)
            /\ Range(q.issued) =
                 { q.pairs[i].finnhub : i \in
                     { j \in DOMAIN q.pairs : q.pairs[j].raw \notin DOMAIN q.hits } }
            /\ q.replies = <<>>
       /\ r \in DOMAIN req =>
            /\ q.reads = req[r].reads
            /\ q.issued = req[r].issued
            /\ q.hits = req[r].hits
       /\ (q.pc = "done") = (SettledCalls(q) = Range(q.issued))
       /\ (q.status # 0) = (q.pc = "done")
       /\ q.pc = "done" => DOMAIN q.body.data = { q.pairs[i].raw : i \in DOMAIN q.pairs }
    ]_vars

\* A request with three calls issued, one of them failed and processed,
\* another still outstanding, and no response sent.
C19_Witness ==
  \E r \in FanOuts(req) :
    /\ Len(req[r].issued) = 3
    /\ \E raw \in DOMAIN req[r].replies : quoteFailed(req[r].replies[raw])
    /\ req[r].pending # {}
    /\ req[r].pc = "await"
    /\ req[r].status = 0

\* The entry the request q writes for the settled call x (the raw symbol of
\* a /quotes pair, the cache key of /fx and /search): its own start time with
\* the value it fetched.
WriteOf(q, x) ==
  [timestamp |-> q.now,
   value |-> IF q.endpoint = "quotes" THEN q.result[x] ELSE q.body]

\* The calls whose answer the step processes for request r.
Processed(r) == DOMAIN req'[r].replies \ DOMAIN req[r].replies

\* C20: a request that misses on a key while another request's call for the
\* key is outstanding issues its own call; every call answered successfully
\* writes the key, also when another request has called or written it; the
\* write replaces the whole entry by the writer's value and start time, so
\* after each step every entry is, timestamp and value together, the write of
\* one request, and after two writes it is the one processed last.
C20_LastProcessedWriteWins ==
  [][/\ Arrives =>
          \A r \in DOMAIN req : \A k \in Range(Arrival.reads) :
            (/\ req[r].pc = "await"
             /\ k \in CalledKeys(req[r])
             /\ (k \notin DOMAIN cache
                   \/ Arrival.now - cache[k].timestamp >= CACHE_TTL_MS))
              => k \in CalledKeys(Arrival) /\ Arrival.pc = "await"
     /\ \A r \in DOMAIN req : \A x \in Processed(r) :
          Succeeded(req[r].endpoint, req'[r].replies[x]) =>
            /\ x \in DOMAIN req'[r].writes
            /\ cache'[KeyOf(req[r], x)] = WriteOf(req'[r], x)
            /\ \A k \in DOMAIN cache \ {KeyOf(req[r], x)} : cache'[k] = cache[k]
     /\ \A k \in DOMAIN cache' :
          \E r \in DOMAIN req' : \E x \in DOMAIN req'[r].writes :
            req'[r].writes[x] = k /\ cache'[k] = WriteOf(req'[r], x)
    ]_vars

\* Two requests of the endpoint, the second arriving after the first and
\* less than TTL later, both wrote the same key with different values; the
\* first one's answer was processed last and the entry is its write.
ConcurrentMisses(endpoint) ==
  \E r1, r2 \in DOMAIN req : \E x1 \in DOMAIN req[r1].writes :
    \E x2 \in DOMAIN req[r2].writes :
      /\ r1 < r2
      /\ req[r1].endpoint = endpoint /\ req[r2].endpoint = endpoint
      /\ req[r1].pc = "done" /\ req[r2].pc = "done"
      /\ req[r1].writes[x1] = req[r2].writes[x2]
      /\ req[r1].now < req[r2].now
      /\ req[r2].now - req[r1].now < CACHE_TTL_MS
      /\ WriteOf(req[r1], x1).value # WriteOf(req[r2], x2).value
      /\ cache[req[r1].writes[x1]] = WriteOf(req[r1], x1)

C20_Witness == ConcurrentMisses("quotes")
C20_WitnessFx == ConcurrentMisses("fx")

\* C21: no step removes a key of the cache; the arrival of a request, with
\* its cache reads, fresh or stale, leaves every entry as it was; and an entry
\* changes only in a step that processes a provider answer of status 200 for
\* its key.
C21_EntriesNeverRemoved ==
  [][/\ DOMAIN cache \subseteq DOMAIN cache'
     /\ Arrives => cache' = cache
     /\ \A k \in DOMAIN cache' :
          (k \notin DOMAIN cache \/ cache'[k] # cache[k]) =>
            \E r \in DOMAIN req : \E x \in Processed(r) :
              /\ KeyOf(req[r], x) = k
              /\ ~req'[r].replies[x].threw
              /\ req'[r].replies[x].status = 200
    ]_vars

\* An entry written by one request was read TTL later by a second one, which
\* found it stale and called the provider; while the call is outstanding the
\* entry is still the first request's write.
C21_Witness ==
  \E r1, r2 \in DOMAIN req : \E x \in DOMAIN req[r1].writes :
    LET k == req[r1].writes[x] IN
    /\ r1 < r2
    /\ req[r1].endpoint = "quotes" /\ req[r2].endpoint = "quotes"
    /\ req[r2].now - req[r1].now >= CACHE_TTL_MS
    /\ k \in Range(req[r2].reads)
    /\ k \in CalledKeys(req[r2])
    /\ req[r2].pc = "await"
    /\ k \in DOMAIN cache
    /\ cache[k] = WriteOf(req[r1], x)

\* The distinct valid symbols of the parameter whose entry is absent from
\* the cache c or TTL old or older at the time now.
NeedFetch(p, c, now) ==
  { s \in ValidItems(p) :
      LET k == quoteCacheKey(mapToFinnhubSymbol(s)) IN
      k \notin DOMAIN c \/ now - c[k].timestamp >= CACHE_TTL_MS }

\* C22: a /quotes request that passes validation with the key set issues, on
\* arrival, one call per distinct valid symbol whose entry is absent or stale
\* then, for the provider symbol of each, and no other call; no later step
\* adds a call to a request, also after a call of it has failed, and a request
\* has at most one answer per call.
C22_OneCallPerMissingSymbol ==
  [][/\ (Arrives /\ Arrival.endpoint = "quotes"
           /\ PassesValidation(Arrival.param) /\ env.FINNHUB_API_KEY) =>
          LET need == NeedFetch(Arrival.param, cache, Arrival.now) IN
          /\ Len(Arrival.issued) = Cardinality(need)
          /\ Range(Arrival.issued) = { mapToFinnhubSymbol(s) : s \in need }
          /\ Arrival.pending = need
     /\ (Arrives /\ Arrival.endpoint = "quotes"
           /\ ~(PassesValidation(Arrival.param) /\ env.FINNHUB_API_KEY)) =>
          Arrival.issued = <<>>
     /\ \A r \in DOMAIN req :
          req[r].endpoint = "quotes" =>
            /\ req'[r].issued = req[r].issued
            /\ Cardinality(DOMAIN req'[r].replies) + Cardinality(req'[r].pending)
                 = Len(req[r].issued)
    ]_vars

\* A request naming one valid symbol twice, beside two invalid items, issued
\* one call, which failed, and was answered without a second call; a later
\* request for the same list found no entry, issued one call, which
\* succeeded, and was answered.
C22_Witness ==
  \E r1, r2 \in QuoteReqs :
    /\ r1 < r2
    /\ Cardinality(ItemsOf(req[r1].param)) = 3
    /\ Cardinality(ValidItems(req[r1].param)) = 1
    /\ Len(req[r1].issued) = 1
    /\ \E raw \in DOMAIN req[r1].replies : quoteFailed(req[r1].replies[raw])
    /\ req[r1].pc = "done"
    /\ req[r2].param = req[r1].param
    /\ Len(req[r2].issued) = 1
    /\ req[r2].pc = "done"
    /\ \E raw \in DOMAIN req[r2].replies : ~quoteFailed(req[r2].replies[raw])

\* The field of the provider's payload behind each field of an entry.
ProviderField ==
  [previousClose |-> "pc", current |-> "c", high |-> "h", low |-> "l", open |-> "o"]

\* C23: for every call of a /quotes request answered with status 200, each
\* of previousClose, current, high, low and open of the symbol's entry is the
\* payload's own field when that is a number and null otherwise, whatever the
\* other fields are; the entry is stored in the cache as a fetched value and
\* sent in the 200 response.
C23_FieldsCoercedIndependently ==
  \A r \in QuoteReqs : \A raw \in DOMAIN req[r].replies :
    LET reply == req[r].replies[raw]
        entry == req[r].result[raw]
    IN (~reply.threw /\ reply.status = 200) =>
         /\ \A f \in DOMAIN ProviderField :
              entry[f] = IF reply.hasData /\ reply.data[ProviderField[f]].t = "number"
                           THEN reply.data[ProviderField[f]] ELSE Null
         /\ entry.symbol = raw
         /\ raw \in DOMAIN req[r].writes
         /\ req[r].pc = "done" =>
              /\ req[r].status = 200
              /\ req[r].body.data[raw] = entry

\* A request answered 200 whose call returned a payload with two numbers, a
\* string, a null and a missing field: the two numbers are in the entry, the
\* other three fields are null, and the entry is in the cache.
C23_Witness ==
  \E r \in QuoteReqs : \E raw \in DOMAIN req[r].replies :
    LET reply == req[r].replies[raw] IN
    /\ Done200(r)
    /\ ~reply.threw /\ reply.status = 200 /\ reply.hasData
    /\ reply.data.c.t = "string" /\ reply.data.h.t = "undefined"
    /\ reply.data.o.t = "null"
    /\ req[r].body.data[raw].previousClose = Num(10)
    /\ req[r].body.data[raw].low = Num(9)
    /\ req[r].body.data[raw].current = Null
    /\ cache[req[r].writes[raw]].value = req[r].body.data[raw]

\* The coins of the alias table: each is listed bare and with -USD.
Coins ==
  { <<"B","T","C">>,
    <<"E","T","H">>,
    <<"B","N","B">>,
    <<"S","O","L">>,
    <<"X","R","P">>,
    <<"A","D","A">>,
    <<"A","V","A","X">>,
    <<"D","O","G","E">>,
    <<"M","A","T","I","C">>,
    <<"D","O","T">>,
    <<"L","T","C">>,
    <<"L","I","N","K">>,
    <<"B","C","H">>,
    <<"S","H","I","B">>,
    <<"U","N","I">>,
    <<"T","O","N">>,
    <<"I","N","J">>,
    <<"O","P">>,
    <<"A","R","B">> }

\* The calls of mapToFinnhubSymbol among the records q.
MapperCallsOf(q) == { r \in DOMAIN q : q[r].endpoint = "mapToFinnhubSymbol" }
MapperCalls == MapperCallsOf(req)

\* What the contract gives for the trimmed, upper-cased input s.
ExpectedMapping(s) ==
  LET binance(base) == <<"B","I","N","A","N","C","E",":">> \o base \o <<"U","S","D","T">>
      usd == <<"-","U","S","D">>
      base == SubSeq(s, 1, Len(s) - 4)
  IN IF s \in Coins THEN binance(s)
     ELSE IF Len(s) > 4 /\ SubSeq(s, Len(s) - 3, Len(s)) = usd /\ base \in Coins
       THEN binance(base)
     ELSE IF /\ Len(s) >= 4 /\ SubSeq(s, Len(s) - 3, Len(s)) = usd
             /\ Len(base) \in 2..10
             /\ \A i \in 1..Len(base) : base[i] \in Range(UpperChars) \cup Range(DigitChars)
       THEN binance(base)
     ELSE s

\* C24: every call of mapToFinnhubSymbol returns what the contract gives for
\* its trimmed, upper-cased input: the table entry of a listed alias,
\* BINANCE:<base>USDT for <base>-USD with a base of 2 to 10 characters of
\* [A-Z0-9], the input itself otherwise; calls with one input return one
\* value whatever the cache holds, and a call changes nothing but its record.
C24_MapperIsPure ==
  [][/\ \A r \in MapperCallsOf(req') :
          req'[r].returned = ExpectedMapping(toUpperCase(trim(req'[r].param)))
     /\ \A r1, r2 \in MapperCallsOf(req') :
          req'[r1].param = req'[r2].param => req'[r1].returned = req'[r2].returned
     /\ DOMAIN cryptoMap = Coins \cup { c \o <<"-","U","S","D">> : c \in Coins }
     /\ (Arrives /\ Arrival.endpoint = "mapToFinnhubSymbol") =>
          /\ cache' = cache /\ env' = env /\ clock' = clock
          /\ SubSeq(req', 1, Len(req)) = req
    ]_vars

\* Two calls: ab-usd gave BINANCE:ABUSDT by the generic rule, and
\* ABCDEFGHIJK-USD, whose base has 11 characters, came back unchanged.
C24_Witness ==
  \E r1, r2 \in MapperCalls :
    /\ req[r1].param = <<"a","b","-","u","s","d">>
    /\ req[r1].returned = <<"B","I","N","A","N","C","E",":","A","B","U","S","D","T">>
    /\ req[r2].param = <<"A","B","C","D","E","F","G","H","I","J","K","-","U","S","D">>
    /\ req[r2].returned = req[r2].param

\* The query of a /search request, trimmed and upper-cased.
NormalQuery(p) == toUpperCase(TrimmedQuery(p))

\* The /search request fetched its results by a provider call that succeeded.
SearchFetched(q) ==
  /\ q.endpoint = "search"
  /\ q.pc = "done" /\ q.status = 200
  /\ q.writes # <<>>

ExpectedResults(matches) ==
  LET kept == { i \in DOMAIN matches :
                  /\ TrimmedQuery(matches[i].symbol) # <<>>
                  /\ TrimmedQuery(matches[i].name) # <<>> }
      nth(j) == CHOOSE i \in kept : Cardinality({k \in kept : k < i}) = j - 1
  IN [j \in 1..Cardinality(kept) |->
        [symbol |-> TrimmedQuery(matches[nth(j)].symbol),
         name |-> TrimmedQuery(matches[nth(j)].name),
         region |-> TrimmedQuery(matches[nth(j)].region),
         currency |-> TrimmedQuery(matches[nth(j)].currency)]]

\* C26: every item of the results of every /search 200 response has a
\* non-empty symbol and a non-empty name; the results of a response built
\* from a provider answer are the answer's matches in their order without
\* the items whose trimmed symbol or name is empty, and the results of a
\* response served from the cache are those of the entry read.
C26_ResultsFiltered ==
  \A r \in SearchReqs :
    (req[r].pc = "done" /\ req[r].status = 200) =>
      /\ \A i \in DOMAIN req[r].body.results :
           /\ req[r].body.results[i].symbol # <<>>
           /\ req[r].body.results[i].name # <<>>
      /\ \A k \in DOMAIN req[r].replies :
           req[r].body.results =
             IF req[r].replies[k].hasData /\ req[r].replies[k].isArray
               THEN ExpectedResults(req[r].replies[k].bestMatches)
               ELSE <<>>
      /\ \A k \in DOMAIN req[r].hits :
           req[r].body.results = req[r].hits[k].value.results

\* A request answered from four matches, two of them kept, the second with
\* its symbol trimmed; a later request answered from the cache with the same
\* two results.
C26_Witness ==
  \E r1, r2 \in SearchReqs :
    /\ r1 < r2
    /\ SearchFetched(req[r1])
    /\ \E k \in DOMAIN req[r1].replies : Len(req[r1].replies[k].bestMatches) = 4
    /\ Len(req[r1].body.results) = 2
    /\ req[r1].body.results[2].symbol = <<"T","L","0",".","D","E","X">>
    /\ req[r2].pc = "done" /\ req[r2].status = 200
    /\ req[r2].issued = <<>>
    /\ DOMAIN req[r2].hits # {}
    /\ req[r2].body.results = req[r1].body.results

\* The cache keys a request has read or written.
Touched(q) == Range(q.reads) \cup Range(q.writes)

\* What a request touches the key k for: its endpoint with the provider
\* symbols of its pairs stored under k, with its pair of currency codes, or
\* with its query, each trimmed and upper-cased.
Owner(q, k) ==
  CASE q.endpoint = "quotes" ->
         <<"quotes", { q.pairs[i].finnhub : i \in
                         { j \in DOMAIN q.pairs : quoteCacheKey(q.pairs[j].finnhub) = k } }>>
    [] q.endpoint = "fx" ->
         <<"fx", toUpperCase(TrimmedQuery(q.param.from)), toUpperCase(TrimmedQuery(q.param.to))>>
    [] q.endpoint = "search" -> <<"search", NormalQuery(q.param)>>

\* C27 as stated: two requests touch the same cache key only when they are
\* for the same endpoint and the same normalized parameters, and every entry
\* of the cache holds a timestamp and the complete value one request wrote.
C27_KeyOwnedByOneParameter ==
  /\ \A r1, r2 \in DOMAIN req : \A k \in Touched(req[r1]) \cap Touched(req[r2]) :
       Owner(req[r1], k) = Owner(req[r2], k)
  /\ \A k \in DOMAIN cache :
       /\ DOMAIN cache[k] = {"timestamp", "value"}
       /\ \E r \in DOMAIN req : \E x \in DOMAIN req[r].writes :
            req[r].writes[x] = k /\ cache[k].value = WriteOf(req[r], x).value

\* The pair A->B to C was fetched and stored; the request for the pair A to
\* B->C, which has the same key, was answered from that entry without a call.
C27_OtherPairServed ==
  \E r1, r2 \in DOMAIN req :
    /\ req[r1].endpoint = "fx" /\ req[r2].endpoint = "fx"
    /\ req[r1].pc = "done" /\ req[r1].status = 200 /\ req[r1].writes # <<>>
    /\ req[r2].pc = "done" /\ req[r2].status = 200 /\ req[r2].issued = <<>>
    /\ Owner(req[r1], <<>>) # Owner(req[r2], <<>>)
    /\ DOMAIN req[r2].hits # {}
    /\ req[r2].body = req[r1].body

\* The part of C27 about the endpoints: a key touched by requests of two
\* endpoints does not exist, and every entry is a timestamp with the complete
\* value one request wrote.
C27_EndpointsKeepApart ==
  /\ \A r1, r2 \in DOMAIN req :
       Touched(req[r1]) \cap Touched(req[r2]) # {} =>
         req[r1].endpoint = req[r2].endpoint
  /\ \A k \in DOMAIN cache :
       /\ DOMAIN cache[k] = {"timestamp", "value"}
       /\ \E r \in DOMAIN req : \E x \in DOMAIN req[r].writes :
            req[r].writes[x] = k /\ cache[k].value = WriteOf(req[r], x).value

\* The /fx requests to the cross-rate server that got a rate table, from the
\* provider's 200 answer or from the cache, and the table they got.
CrossWithTable ==
  { r \in DOMAIN req :
      /\ req[r].endpoint = "fx" /\ req[r].pc = "done"
      /\ \/ DOMAIN req[r].hits # {}
         \/ \E k \in DOMAIN req[r].replies :
              ~req[r].replies[k].threw /\ req[r].replies[k].status = 200 }
TableOf(q) ==
  IF DOMAIN q.hits # {} THEN q.hits[crossCacheKey].value
  ELSE IF q.replies[crossCacheKey].hasData /\ q.replies[crossCacheKey].hasQuote
    THEN q.replies[crossCacheKey].quote
  ELSE (EUR :> Undefined) @@ (GBP :> Undefined) @@ (ZZZ :> Undefined)

\* The leg of a code against the base: 1.0 for the base itself, the table's
\* entry when it is a number, none (null) otherwise.  Thousandths.
Leg(table, code) ==
  IF code = <<"U","S","D">> THEN [t |-> "number", v |-> 1000]
  ELSE IF code \in DOMAIN table /\ table[code].t = "number" THEN table[code]
  ELSE Null

\* The codes of a request, upper-cased and trimmed.
CodeFrom(q) == toUpperCase(TrimmedQuery(q.param.from))
CodeTo(q) == toUpperCase(TrimmedQuery(q.param.to))

\* C28: a cross-rate /fx request for from # to that got a rate table is
\* answered 400 'Unsupported currency code' without a rate when a leg is
\* not a number in the table, the base's own leg being 1.0 with no entry,
\* and otherwise 200 with the rate table[to] / table[from], the quotient as
\* the division of the two numbers gives it.
C28_CrossRateIsQuotient ==
  \A r \in CrossWithTable :
    LET q == req[r]
        rFrom == Leg(TableOf(q), CodeFrom(q))
        rTo == Leg(TableOf(q), CodeTo(q))
    IN CodeFrom(q) # CodeTo(q) =>
         IF rFrom = Null \/ rTo = Null
           THEN /\ q.status = 400
                /\ q.body.error = "Unsupported currency code"
                /\ "rate" \notin DOMAIN q.body
           ELSE /\ q.status = 200
                /\ q.body.from = CodeFrom(q) /\ q.body.to = CodeTo(q)
                /\ q.body.rate.num = rTo.v
                /\ q.body.rate.den = rFrom.v
                /\ q.body.rate.t = IF rFrom.v # 0 THEN "number"
                                   ELSE IF rTo.v = 0 THEN "NaN" ELSE "Infinity"

\* EUR to USD answered from the provider's table with 1.0 / 0.91, then eur
\* to GBP answered from the cached table with 0.78 / 0.91.
C28_Witness ==
  \E r1, r2 \in CrossWithTable :
    /\ r1 < r2
    /\ CodeFrom(req[r1]) = EUR /\ CodeTo(req[r1]) = BASE
    /\ req[r1].status = 200
    /\ req[r1].body.rate = [t |-> "number", num |-> 1000, den |-> 910]
    /\ CodeFrom(req[r2]) = EUR /\ CodeTo(req[r2]) = GBP
    /\ DOMAIN req[r2].hits # {}
    /\ req[r2].status = 200
    /\ req[r2].body.rate = [t |-> "number", num |-> 780, den |-> 910]

\* The provider's answer has status 200 and no rate table in its payload.
NoRateTable(reply) ==
  /\ ~reply.threw /\ reply.status = 200
  /\ ~(reply.hasData /\ reply.hasQuote)

\* C29 as stated: a cross-rate /fx request whose provider answer has status
\* 200 and no rate table is answered 500 and writes nothing to the cache.
C29_MalformedTableIs500 ==
  \A r \in DOMAIN req : \A k \in DOMAIN req[r].replies :
    (req[r].endpoint = "fx" /\ req[r].pc = "done" /\ NoRateTable(req[r].replies[k])) =>
      /\ req[r].status = 500
      /\ req[r].writes = <<>>

\* The answer without a table was stored as an empty table: a later request,
\* made within TTL, was answered 400 from the cache without a provider call.
C29_EmptyTableServed ==
  \E r1, r2 \in DOMAIN req :
    /\ r1 < r2
    /\ req[r1].pc = "done" /\ req[r2].pc = "done"
    /\ \E k \in DOMAIN req[r1].replies : NoRateTable(req[r1].replies[k])
    /\ req[r1].status = 400
    /\ req[r2].now - req[r1].now = CACHE_TTL_MS - 1
    /\ req[r2].issued = <<>>
    /\ DOMAIN req[r2].hits # {}
    /\ req[r2].status = 400
    /\ CodeFrom(req[r2]) = EUR /\ CodeTo(req[r2]) = BASE

\* The i-th request has arrived; it has been answered.
Received(i) == Len(req) >= i
Responded(i) == Len(req) >= i /\ req[i].pc = "done"

\* C30 as stated: with every issued provider call completing, every request
\* to /quotes, /fx and /search is answered in the end, and an answer once
\* sent is never followed by another for the same request.
C30_EveryRequestAnsweredOnce ==
  /\ \A i \in 1..MaxReqs : Received(i) ~> Responded(i)
  /\ [][\A r \in DOMAIN req : req[r].pc = "done" => req'[r] = req[r]]_vars

\* The part of C30 that holds: a request whose parameters are strings or
\* missing is either answered or waits for a provider call still in flight.
C30_StringRequestsAnsweredOrWaiting ==
  \A r \in DOMAIN req :
    "repeated" \notin DOMAIN req[r].param =>
      \/ req[r].pc = "done"
      \/ req[r].pc = "await" /\ req[r].pending # {}

\* A request with a repeated parameter ended by a thrown TypeError: nothing
\* was sent and no provider call is in flight that could still answer it.
C30_RequestLeftUnanswered ==
  \E r \in DOMAIN req :
    /\ "repeated" \in DOMAIN req[r].param
    /\ req[r].pc = "rejected"
    /\ req[r].status = 0
    /\ req[r].pending = {}

\* C31 as stated: no step lowers the timestamp stored under a cache key.
C31_TimestampNeverDecreases ==
  [][\A k \in DOMAIN cache : cache'[k].timestamp >= cache[k].timestamp]_vars

\* C31, amended: an entry changes only in a step that processes the successful
\* answer to a call of some request for its key, and the timestamp stored is
\* the start time of that request; it is lower than the one it replaces only
\* when the entry replaced was written by a request that arrived after the
\* writer and started later.
C31_TimestampIsWritersStart ==
  [][\A k \in DOMAIN cache :
       cache'[k] # cache[k] =>
         \E r \in DOMAIN req : \E x \in Processed(r) :
           /\ KeyOf(req[r], x) = k
           /\ cache'[k].timestamp = req[r].now
           /\ cache'[k].timestamp < cache[k].timestamp =>
                \E r2 \in DOMAIN req :
                  /\ r2 > r
                  /\ req[r2].now > req[r].now
                  /\ k \in Range(req[r2].writes)
                  /\ cache[k].timestamp = req[r2].now
    ]_vars

\* Two requests missed on the same key, the second starting later than the
\* first; the second one's answer was stored first and the first one's after
\* it, so the entry carries the earlier start time.
C31_Witness ==
  \E r1, r2 \in DOMAIN req :
    \E k \in Range(req[r1].writes) \cap Range(req[r2].writes) :
      /\ r1 < r2
      /\ req[r1].pc = "done" /\ req[r2].pc = "done"
      /\ req[r1].now < req[r2].now
      /\ cache[k].timestamp = req[r1].now

ServedAtLastMoment(endpoint) ==
  \E r1, r2 \in DOMAIN req : \E x \in DOMAIN req[r1].writes :
    /\ r1 < r2
    /\ req[r1].endpoint = endpoint /\ req[r2].endpoint = endpoint
    /\ req[r2].now - req[r1].now = CACHE_TTL_MS - 1
    /\ req[r2].issued = <<>>
    /\ \E h \in DOMAIN req[r2].hits : req[r2].hits[h] = WriteOf(req[r1], x)

SameProviderSymbol(q) ==
  { pr \in SymbolsOf(q) \X SymbolsOf(q) :
      pr[1] # pr[2] /\ mapToFinnhubSymbol(pr[1]) = mapToFinnhubSymbol(pr[2]) }

\* C33 as stated: in a /quotes response two client symbols with the same
\* provider symbol carry the same five values.
C33_AliasesAgreeInOneResponse ==
  \A r \in QuoteReqs :
    Done200(r) =>
      \A pr \in SameProviderSymbol(req[r]) :
        Prices(req[r].body.data[pr[1]]) = Prices(req[r].body.data[pr[2]])

\* C33, amended: two client symbols of a request with the same provider
\* symbol are looked up under one key at the start of the request.  When the
\* entry is fresh both are served from it, with the same five values and no
\* call; when it is absent or stale a call is issued for each of the two, and
\* in the response each carries the values of its own call, or the all-null
\* entry when its own call failed.
C33_AliasesAgreeWhenServed ==
  [][/\ (Arrives /\ Arrival.endpoint = "quotes") =>
          \A pr \in SameProviderSymbol(Arrival) :
            LET k == quoteCacheKey(mapToFinnhubSymbol(pr[1])) IN
            IF k \in DOMAIN cache /\ Arrival.now - cache[k].timestamp < CACHE_TTL_MS
              THEN /\ pr[1] \notin Arrival.pending /\ pr[2] \notin Arrival.pending
                   /\ Prices(Arrival.result[pr[1]]) = Prices(cache[k].value)
                   /\ Prices(Arrival.result[pr[2]]) = Prices(cache[k].value)
              ELSE /\ pr[1] \in Arrival.pending /\ pr[2] \in Arrival.pending
                   /\ Len(SelectSeq(Arrival.issued,
                                    LAMBDA f : f = mapToFinnhubSymbol(pr[1]))) >= 2
     /\ \A r \in QuoteReqs :
          (req'[r].pc = "done" /\ req'[r].status = 200) =>
            \A raw \in DOMAIN req'[r].replies :
              Prices(req'[r].body.data[raw]) =
                IF quoteFailed(req'[r].replies[raw])
                  THEN <<Null, Null, Null, Null, Null>>
                  ELSE PricesOf(req'[r].replies[raw])
    ]_vars

\* BTC and BTC-USD were requested together with no fresh entry: one call
\* failed, the other succeeded, and the response carries nulls for the one
\* and prices for the other.
C33_Witness ==
  \E r \in QuoteReqs :
    /\ Done200(r)
    /\ SymbolsOf(req[r]) = {BTC, BTC \o DashUSD}
    /\ DOMAIN req[r].replies = {BTC, BTC \o DashUSD}
    /\ quoteFailed(req[r].replies[BTC])
    /\ ~quoteFailed(req[r].replies[BTC \o DashUSD])
    /\ AllNull(req[r].body.data[BTC])
    /\ ~AllNull(req[r].body.data[BTC \o DashUSD])

\* BTC and BTC-USD were requested together while the entry of an earlier
\* request was fresh, and both were served from it.
C33_WitnessServed ==
  \E r1, r2 \in QuoteReqs :
    /\ r1 < r2
    /\ Done200(r2)
    /\ SymbolsOf(req[r2]) = {BTC, BTC \o DashUSD}
    /\ req[r2].issued = <<>>
    /\ ~AllNull(req[r2].body.data[BTC])
    /\ Prices(req[r2].body.data[BTC]) = Prices(req[r2].body.data[BTC \o DashUSD])

\* C34: a /quotes request that passed validation with the provider key set
\* has no status while a call of it is outstanding and status 200, with the
\* data object, once answered, whatever its calls did; no /quotes request is
\* answered 'Failed to fetch quotes'.
C34_ValidatedRequestIs200 ==
  \A r \in QuoteReqs :
    /\ (PassesValidation(req[r].param) /\ env.FINNHUB_API_KEY) =>
         IF req[r].pc = "done"
           THEN /\ req[r].status = 200
                /\ "data" \in DOMAIN req[r].body
                /\ "error" \notin DOMAIN req[r].body
                /\ DOMAIN req[r].replies \subseteq DOMAIN req[r].body.data
           ELSE req[r].pc = "await" /\ req[r].status = 0 /\ req[r].pending # {}
    /\ req[r].body # [error |-> "Failed to fetch quotes"]

\* Two requests were answered 200: the call of one threw, the call of the
\* other returned status 200 without a body.
C34_Witness ==
  \E r1, r2 \in QuoteReqs :
    /\ Done200(r1) /\ Done200(r2)
    /\ \E raw \in DOMAIN req[r1].replies : req[r1].replies[raw].threw
    /\ \E raw \in DOMAIN req[r2].replies :
         /\ ~req[r2].replies[raw].threw
         /\ req[r2].replies[raw].status = 200
         /\ ~req[r2].replies[raw].hasData

\* A request was answered 200 after its call returned a status other than 200.
C34_WitnessStatus ==
  \E r \in QuoteReqs :
    /\ Done200(r)
    /\ \E raw \in DOMAIN req[r].replies :
         ~req[r].replies[raw].threw /\ req[r].replies[raw].status # 200

TooManyBody == [error |-> "Too many symbols. Max allowed is 100."]

\* C35: a /quotes request whose parameter holds more than MAX_SYMBOLS distinct
\* non-empty items, valid or not, is answered 400 with the 'Too many symbols'
\* body and nothing else, without a cache read or a provider call, however few
\* of the items are valid; a request with at most MAX_SYMBOLS distinct items
\* is never answered with that body.
C35_CapCountsAllDistinctItems ==
  \A r \in QuoteReqs :
    LET p == req[r].param IN
    (p.present /\ p.value # <<>>) =>
      IF Cardinality(ItemsOf(p)) > MAX_SYMBOLS
        THEN /\ req[r].pc = "done"
             /\ req[r].status = 400
             /\ req[r].body = TooManyBody
             /\ req[r].reads = <<>> /\ req[r].issued = <<>>
        ELSE req[r].body # TooManyBody

\* One request with MAX_SYMBOLS + 1 distinct items, a single one of them
\* valid, was refused as too many; another with MAX_SYMBOLS distinct items
\* after the removal of a repeated one, a single one valid, went on to its
\* provider call.
C35_Witness ==
  \E r1, r2 \in QuoteReqs :
    /\ Cardinality(ItemsOf(req[r1].param)) = MAX_SYMBOLS + 1
    /\ Cardinality(ValidItems(req[r1].param)) = 1
    /\ req[r1].status = 400 /\ req[r1].body = TooManyBody
    /\ Cardinality(ItemsOf(req[r2].param)) = MAX_SYMBOLS
    /\ Cardinality(ValidItems(req[r2].param)) = 1
    /\ Len(req[r2].issued) = 1
    /\ Len(req[r2].invalidSymbols) = MAX_SYMBOLS - 1

\* C36: the step that processes a thrown or non-200 answer to a /quotes call
\* leaves the cache as it was, the stale entry of the key included, and gives
\* the symbol the all-null entry; the response of the request carries that
\* entry for the symbol.
C36_FailureKeepsStaleEntry ==
  [][\A r \in QuoteReqs : \A raw \in Processed(r) :
       quoteFailed(req'[r].replies[raw]) =>
         /\ cache' = cache
         /\ raw \notin DOMAIN req'[r].writes
         /\ AllNull(req'[r].result[raw])
         /\ req'[r].result[raw].symbol = raw
         /\ req'[r].result[raw].provider = "finnhub"
         /\ req'[r].pc = "done" =>
              /\ req'[r].status = 200
              /\ \A x \in DOMAIN req'[r].replies :
                   quoteFailed(req'[r].replies[x]) =>
                     AllNull(req'[r].body.data[x])
    ]_vars

\* A request stored prices for a key; a second request, TTL or more later,
\* found the entry stale and called the provider; the call failed, the
\* second request was answered with nulls, and the entry is still the first
\* request's write.
StaleEntryKept(threw) ==
  \E r1, r2 \in QuoteReqs : \E x \in DOMAIN req[r1].writes :
    \E raw \in DOMAIN req[r2].replies :
      /\ r1 < r2
      /\ req[r2].now - req[r1].now >= CACHE_TTL_MS
      /\ KeyOf(req[r2], raw) = req[r1].writes[x]
      /\ quoteFailed(req[r2].replies[raw])
      /\ req[r2].replies[raw].threw = threw
      /\ Done200(r2)
      /\ AllNull(req[r2].body.data[raw])
      /\ ~AllNull(req[r1].result[x])
      /\ cache[req[r1].writes[x]] = WriteOf(req[r1], x)

C36_Witness == StaleEntryKept(TRUE)
C36_WitnessStatus == StaleEntryKept(FALSE)

\* C37 as stated: the query field of a /search 200 response is the trimmed
\* query of the request it answers, whether fetched or served from the cache.
C37_QueryIsOwnQuery ==
  \A r \in SearchReqs :
    Done200(r) => req[r].body.query = TrimmedQuery(req[r].param)

\* A request for TSLA was served, from the entry a request for tsla had
\* stored, a response whose query field is tsla.
C37_OtherSpellingEchoed ==
  \E r1, r2 \in SearchReqs :
    /\ r1 < r2
    /\ Done200(r1) /\ Done200(r2)
    /\ req[r1].writes # <<>>
    /\ req[r2].issued = <<>>
    /\ DOMAIN req[r2].hits # {}
    /\ TrimmedQuery(req[r1].param) = <<"t","s","l","a">>
    /\ TrimmedQuery(req[r2].param) = <<"T","S","L","A">>
    /\ req[r2].body.query = <<"t","s","l","a">>

\* What holds of the field: it is the trimmed query of the request whose
\* provider call filled the entry, equal to the request's own up to case.
C37_QueryIsOwnUpToCase ==
  \A r \in SearchReqs :
    Done200(r) =>
      /\ toUpperCase(req[r].body.query) = NormalQuery(req[r].param)
      /\ req[r].issued # <<>> => req[r].body.query = TrimmedQuery(req[r].param)

\* The provider symbol of the pair base/USDT.
BinancePair(base) ==
  <<"B","I","N","A","N","C","E",":">> \o base \o <<"U","S","D","T">>

\* C38: the symbols mapped are valid; two distinct ones get the same provider
\* symbol exactly when they are X and X-USD for a coin X of the table; a
\* table entry X-USD gets BINANCE:XUSDT with X of 2 to 10 characters of
\* [A-Z0-9], as the generic rule gives; and a symbol returned unchanged never
\* has the cache key of a symbol that was mapped to a pair.
C38_OnlyTableAliasesCollide ==
  \A r1, r2 \in MapperCalls :
    LET a == req[r1].param
        b == req[r2].param
    IN /\ MatchesSymbolPattern(a)
       /\ a # b =>
            (req[r1].returned = req[r2].returned
               <=> \E x \in Coins : {a, b} = {x, x \o <<"-","U","S","D">>})
       /\ \A x \in Coins :
            a = x \o <<"-","U","S","D">> =>
              /\ req[r1].returned = BinancePair(x)
              /\ Len(x) \in 2..10
              /\ \A i \in 1..Len(x) : x[i] \in Range(UpperChars) \cup Range(DigitChars)
       /\ (req[r1].returned = a /\ req[r2].returned # b) =>
            quoteCacheKey(req[r1].returned) # quoteCacheKey(req[r2].returned)

\* OP and OP-USD were mapped to one provider symbol, BINANCE:OPUSDT.
C38_Witness ==
  \E r1, r2 \in MapperCalls :
    /\ req[r1].param = <<"O","P">>
    /\ req[r2].param = <<"O","P","-","U","S","D">>
    /\ req[r1].returned = req[r2].returned
    /\ req[r1].returned = BinancePair(<<"O","P">>)

\* The pair AB-USD, taken by the generic rule, and the ticker ABUSDT were
\* mapped to different provider symbols.
C38_WitnessTicker ==
  \E r1, r2 \in MapperCalls :
    /\ req[r1].param = <<"A","B","-","U","S","D">>
    /\ req[r2].param = <<"A","B","U","S","D","T">>
    /\ req[r1].returned = BinancePair(<<"A","B">>)
    /\ req[r2].returned = req[r2].param

====
